---------------------------- MODULE Spec2Model ----------------------------
(***************************************************************************)
(* es2tabular: flattening of an Elasticsearch response (aggregations or    *)
(* hits) into tabular rows, and of the rows into CSV text, src/index.js.    *)
(*                                                                         *)
(* JavaScript values are tagged tuples, so that values of different types  *)
(* can be compared (=== is tuple equality):                                *)
(*   <<"undefined">>  <<"null">>  <<"number", n>>  <<"string", s>>         *)
(*   <<"boolean", b>>  <<"function">>  <<"array", <<v1, ..., vn>> >>       *)
(*   <<"object", << <<k1, v1>>, ..., <<kn, vn>> >> >>                      *)
(* An object lists its own enumerable properties in the order of           *)
(* Object.keys and of for-in: integer indexes in ascending order, then the *)
(* other names in creation order.                                          *)
(***************************************************************************)
EXTENDS Integers, Sequences, FiniteSets, TLC

VARIABLES
    esOutput,   \* the response handed to esToTable
    options,    \* the options object handed to esToTable
    pc,         \* "start" before the call of esToTable, "done" after it;
                \* "csvstart" before the call of tableToCSV, "csvdone" after it;
                \* "runs" while calls are repeated
    result,     \* the outcome of the call: <<"return", table>> or <<"throw", kind>>
    calls,      \* the invocations of processAggregation the call made, in call order
    table,      \* the rows handed to tableToCSV
    csvOptions, \* the options object handed to tableToCSV
    csv,        \* the text tableToCSV returned
    runs,       \* the calls completed so far when calls are repeated: <<function, outcome>>
    alone,      \* what a single call on each input returns
    files,      \* the paths of the files in the server's data directory
    dirs,       \* the paths of the directories there
    served,     \* the last request a file route served, and its outcome
    service,    \* one DuckDBService: its instance, connection and initialized fields
    tasks,      \* the calls made on the service, each with its position
    engine,     \* the database instances and connections created so far
    ran         \* the SQL statements run so far: <<call, statement, connection>>

coreVars == <<esOutput, options, pc, result, calls, table, csvOptions, csv, runs, alone>>
routeVars == <<files, dirs, served>>
duckVars == <<service, tasks, engine, ran>>
vars == <<esOutput, options, pc, result, calls, table, csvOptions, csv, runs, alone,
          files, dirs, served, service, tasks, engine, ran>>

---------------------------------------------------------------------------
(* JavaScript values *)

Undef == <<"undefined">>
Null == <<"null">>
Fn == <<"function">>
Bool(b) == <<"boolean", b>>
Num(n) == <<"number", n>>
Str(s) == <<"string", s>>
Arr(elems) == <<"array", elems>>
Obj(props) == <<"object", props>>

IsArray(v) == v[1] = "array"
IsObject(v) == v[1] = "object"

\* typeof v === 'object'  (null and arrays included)
TypeofObject(v) == v[1] \in {"object", "array", "null"}

\* ToBoolean(v): the values !v, v && ..., v || ... treat as true
Truthy(v) == v \notin {Undef, Null, Str(""), Num(0), Bool(FALSE)}

\* a || b
OrElse(a, b) == IF Truthy(a) THEN a ELSE b

Props(o) == IF IsObject(o) THEN o[2] ELSE <<>>

\* Object.keys(o)
Keys(o) == [i \in 1..Len(Props(o)) |-> Props(o)[i][1]]

HasOwn(o, k) == \E i \in 1..Len(Props(o)) : Props(o)[i][1] = k

OwnValue(o, k) == Props(o)[CHOOSE i \in 1..Len(Props(o)) : Props(o)[i][1] = k][2]

\* The members every plain object inherits from Object.prototype.
ObjectPrototypeNames ==
    {"constructor", "toString", "valueOf", "hasOwnProperty", "isPrototypeOf",
     "propertyIsEnumerable", "toLocaleString"}

\* o[k] and o.k: the own property, else the inherited member, else undefined
Get(o, k) ==
    IF HasOwn(o, k) THEN OwnValue(o, k)
    ELSE IF IsObject(o) /\ k \in ObjectPrototypeNames THEN Fn
    ELSE Undef

Digits == <<"0", "1", "2", "3", "4", "5", "6", "7", "8", "9">>

IsDigit(c) == \E d \in 1..10 : Digits[d] = c

DigitValue(c) == (CHOOSE d \in 1..10 : Digits[d] = c) - 1

\* A property name that is an integer index: the canonical decimal text of an
\* integer (up to nine digits here, all below 2^32 - 1).
IsIndex(k) ==
    /\ Len(k) \in 1..9
    /\ \A i \in 1..Len(k) : IsDigit(SubSeq(k, i, i))
    /\ (Len(k) > 1 => SubSeq(k, 1, 1) # "0")

\* The integer the first n characters of an index name denote.
RECURSIVE IndexOf(_, _)
IndexOf(k, n) ==
    IF n = 0 THEN 0 ELSE 10 * IndexOf(k, n - 1) + DigitValue(SubSeq(k, n, n))

\* Where a new property lands in the property order of an object: integer
\* indexes first, in ascending order, then the other names in creation order.
InsertAt(props, k) ==
    IF IsIndex(k)
    THEN 1 + Cardinality({i \in 1..Len(props) :
                             /\ IsIndex(props[i][1])
                             /\ IndexOf(props[i][1], Len(props[i][1])) < IndexOf(k, Len(k))})
    ELSE Len(props) + 1

\* o[k] = v on the property list: an existing property keeps its place
SetProp(props, k, v) ==
    IF \E i \in 1..Len(props) : props[i][1] = k
    THEN [i \in 1..Len(props) |-> IF props[i][1] = k THEN <<k, v>> ELSE props[i]]
    ELSE LET at == InsertAt(props, k) IN
         SubSeq(props, 1, at - 1) \o << <<k, v>> >> \o SubSeq(props, at, Len(props))

\* { ...o, k: v }
With(o, k, v) == Obj(SetProp(Props(o), k, v))

\* a.length of an array
Length(a) == IF IsArray(a) THEN Len(a[2]) ELSE 0


---------------------------------------------------------------------------
(* Row assembly: getBucketKey, findNestedAggregations,                     *)
(* findMetricAggregations, createRowFromBucket                             *)

\* getBucketKey reading key before key_as_string.
getBucketKey_KeyFirst(bucket) ==
    IF Get(bucket, "key") # Undef
    THEN Get(bucket, "key")
    ELSE Get(bucket, "key_as_string")

\* Prefers key_as_string over key.
getBucketKey(bucket) ==
    IF Get(bucket, "key_as_string") # Undef
    THEN Get(bucket, "key_as_string")
    ELSE Get(bucket, "key")

\* The bucket properties that are never a nested aggregation nor a metric.
skipKeys == {"key", "key_as_string", "doc_count", "doc_count_error_upper_bound",
             "sum_other_doc_count"}

\* One property of a bucket is a nested aggregation.
IsNestedAggregation(key, obj) ==
    /\ key \notin skipKeys
    /\ TypeofObject(obj)
    /\ obj # Null
    /\ Get(obj, "buckets") # Undef

\* The sequence of [name, aggregation] found in the bucket, in property order.
findNestedAggregations(bucket) ==
    SelectSeq([i \in 1..Len(Props(bucket)) |->
                  [name |-> Props(bucket)[i][1], aggregation |-> Props(bucket)[i][2]]],
              LAMBDA e : IsNestedAggregation(e.name, e.aggregation))

\* One property of a bucket is a metric with a value to emit.
IsMetricAggregation(key, obj) ==
    /\ key \notin skipKeys
    /\ Truthy(obj)
    /\ IsObject(obj)
    /\ Get(obj, "buckets") = Undef
    /\ (Get(obj, "doc_count") # Undef \/ Get(obj, "value") # Undef)

\* MetricValue reading value before doc_count.
MetricValue_ValueFirst(obj) ==
    IF Get(obj, "value") # Undef THEN Get(obj, "value") ELSE Get(obj, "doc_count")

\* doc_count (filter aggregation) before value (sum, avg, ...).
MetricValue(obj) ==
    IF Get(obj, "doc_count") # Undef THEN Get(obj, "doc_count") ELSE Get(obj, "value")

\* The sequence of [name, value] found in the bucket, in property order.
findMetricAggregations(bucket) ==
    LET all == [i \in 1..Len(Props(bucket)) |->
                   [name |-> Props(bucket)[i][1], obj |-> Props(bucket)[i][2]]]
        found == SelectSeq(all, LAMBDA e : IsMetricAggregation(e.name, e.obj))
    IN  [i \in 1..Len(found) |-> [name |-> found[i].name, value |-> MetricValue(found[i].obj)]]

\* The path items written into the row: those with a truthy column and a value.
\* PathColumns keeping the first value written under a column.
RECURSIVE PathColumns_FirstWins(_, _, _)
PathColumns_FirstWins(row, path, i) ==
    IF i > Len(path) THEN row
    ELSE PathColumns_FirstWins(
             IF Truthy(path[i].column) /\ path[i].value # Undef
                /\ ~\E j \in 1..Len(row) : row[j][1] = path[i].column[2]
             THEN SetProp(row, path[i].column[2], path[i].value)
             ELSE row,
             path, i + 1)

RECURSIVE PathColumns(_, _, _)
PathColumns(row, path, i) ==
    IF i > Len(path) THEN row
    ELSE PathColumns(
             IF Truthy(path[i].column) /\ path[i].value # Undef
             THEN SetProp(row, path[i].column[2], path[i].value)
             ELSE row,
             path, i + 1)

\* row['key'] = bucketKey unless the key is the last path value.
\* KeyColumn writing the key whenever the bucket has one.
KeyColumn_Always(row, bucket, path) ==
    IF getBucketKey(bucket) # Undef THEN SetProp(row, "key", getBucketKey(bucket)) ELSE row

KeyColumn(row, bucket, path) ==
    LET bucketKey == getBucketKey(bucket) IN
    IF bucketKey # Undef /\ (Len(path) = 0 \/ path[Len(path)].value # bucketKey)
    THEN SetProp(row, "key", bucketKey)
    ELSE row

DocCountColumn(row, bucket) ==
    IF Get(bucket, "doc_count") # Undef
    THEN SetProp(row, "doc_count", Get(bucket, "doc_count"))
    ELSE row

RECURSIVE MetricColumns(_, _, _)
MetricColumns(row, metrics, i) ==
    IF i > Len(metrics) THEN row
    ELSE MetricColumns(SetProp(row, metrics[i].name, metrics[i].value), metrics, i + 1)

createRowFromBucket(bucket, path) ==
    Obj(MetricColumns(
            DocCountColumn(KeyColumn(PathColumns(<<>>, path, 1), bucket, path), bucket),
            findMetricAggregations(bucket), 1))

---------------------------------------------------------------------------
(* The walker: processAggregation *)

\* agg.buckets is a non-array object: a filters aggregation
IsFilters(agg) ==
    LET b == Get(agg, "buckets") IN Truthy(b) /\ TypeofObject(b) /\ ~IsArray(b)

\* agg.buckets is an array: a terms aggregation
IsTerms(agg) ==
    LET b == Get(agg, "buckets") IN Truthy(b) /\ IsArray(b)

\* FiltersColumnName reading the filterColumnName option first.
FiltersColumnName_OptionFirst(opts) ==
    OrElse(Get(opts, "filterColumnName"),
           OrElse(Get(opts, "currentAggregationName"), Str("filter")))

FiltersColumnName(opts) ==
    OrElse(Get(opts, "currentAggregationName"),
           OrElse(Get(opts, "filterColumnName"), Str("filter")))

\* TermsColumnName falling back on the filterColumnName option.
TermsColumnName_AsFilters(opts) ==
    OrElse(Get(opts, "currentAggregationName"),
           OrElse(Get(opts, "filterColumnName"), Str("aggregation")))

TermsColumnName(opts) ==
    OrElse(Get(opts, "currentAggregationName"),
           OrElse(Get(opts, "topLevelAggregationName"),
                  OrElse(Get(opts, "aggregationName"), Str("aggregation"))))

PathItem(column, value) == [column |-> column, value |-> value]

FiltersPath(path, columnName, bucketName) ==
    Append(path, PathItem(columnName, Str(bucketName)))

\* TermsPath appending an entry with an empty value for a bucket without key.
TermsPath_KeylessAsEmpty(path, aggregationName, bucket) ==
    IF getBucketKey(bucket) # Undef
    THEN Append(path, PathItem(aggregationName, getBucketKey(bucket)))
    ELSE Append(path, PathItem(aggregationName, Str("")))

TermsPath(path, aggregationName, bucket) ==
    IF getBucketKey(bucket) # Undef
    THEN Append(path, PathItem(aggregationName, getBucketKey(bucket)))
    ELSE path

\* HasOther with >= for >.
HasOther_NonNegative(agg) ==
    LET n == Get(agg, "sum_other_doc_count") IN n[1] = "number" /\ n[2] >= 0

\* agg.sum_other_doc_count > 0 (undefined > 0 is false)
HasOther(agg) ==
    LET n == Get(agg, "sum_other_doc_count") IN n[1] = "number" /\ n[2] > 0

\* OtherRows building the row from the aggregation instead of a remainder bucket.
OtherRows_FromAgg(agg, aggregationName, path) ==
    IF Get(agg, "sum_other_doc_count")[1] = "number" /\ Get(agg, "sum_other_doc_count")[2] > 0
    THEN << createRowFromBucket(
                agg, Append(path, PathItem(aggregationName, Str("_other_")))) >>
    ELSE <<>>

\* The "_other_" row of a terms aggregation.
OtherRows(agg, aggregationName, path) ==
    IF HasOther(agg)
    THEN << createRowFromBucket(
                Obj(<< <<"doc_count", Get(agg, "sum_other_doc_count")>> >>),
                Append(path, PathItem(aggregationName, Str("_other_")))) >>
    ELSE <<>>

\* Push adding the new rows in front.
Push_Front(results, more) == more \o results

\* results.push(...more)
Push(results, more) == results \o more

RECURSIVE processAggregation(_, _, _)
RECURSIVE NestedResults(_, _, _, _)
RECURSIVE FiltersResults(_, _, _, _)
RECURSIVE TermsResults(_, _, _, _)

\* The entries the walk of one aggregation adds to a path for its own buckets.
PathAdded(agg, opts) ==
    IF IsFilters(agg)
    THEN [k \in 1..Len(Keys(Get(agg, "buckets"))) |->
             PathItem(FiltersColumnName(opts), Str(Keys(Get(agg, "buckets"))[k]))]
    ELSE IF IsTerms(agg)
    THEN SelectSeq([k \in 1..Len(Get(agg, "buckets")[2]) |->
                       PathItem(TermsColumnName(opts), getBucketKey(Get(agg, "buckets")[2][k]))],
                   LAMBDA e : e.value # Undef)
    ELSE <<>>

\* NestedResults with one path shared by the nested aggregations of a bucket:
\* the entries added while walking one of them stay for the next.
RECURSIVE NestedResults_SharedPath(_, _, _, _)
NestedResults_SharedPath(nestedAggs, opts, newPath, i) ==
    IF i > Len(nestedAggs) THEN <<>>
    ELSE LET nestedOptions == With(opts, "currentAggregationName", Str(nestedAggs[i].name)) IN
         Push(processAggregation(nestedAggs[i].aggregation, nestedOptions, newPath),
              NestedResults_SharedPath(
                  nestedAggs, opts,
                  newPath \o PathAdded(nestedAggs[i].aggregation, nestedOptions), i + 1))

\* The loop over the nested aggregations of one bucket, from the i-th on.
NestedResults(nestedAggs, opts, newPath, i) ==
    IF i > Len(nestedAggs) THEN <<>>
    ELSE Push(processAggregation(nestedAggs[i].aggregation,
                                 With(opts, "currentAggregationName", Str(nestedAggs[i].name)),
                                 newPath),
              NestedResults(nestedAggs, opts, newPath, i + 1))

\* BucketResults giving a bucket with nested aggregations a row of its own too.
BucketResults_OwnRowFirst(bucket, opts, newPath) ==
    LET nestedAggs == findNestedAggregations(bucket) IN
    IF Len(nestedAggs) > 0
    THEN << createRowFromBucket(bucket, newPath) >> \o NestedResults(nestedAggs, opts, newPath, 1)
    ELSE << createRowFromBucket(bucket, newPath) >>

\* The rows of one bucket: those of its nested aggregations, or its leaf row.
BucketResults(bucket, opts, newPath) ==
    LET nestedAggs == findNestedAggregations(bucket) IN
    IF Len(nestedAggs) > 0
    THEN NestedResults(nestedAggs, opts, newPath, 1)
    ELSE << createRowFromBucket(bucket, newPath) >>

\* The loop over the named buckets of a filters aggregation, from the i-th on.
FiltersResults(agg, opts, path, i) ==
    LET buckets == Get(agg, "buckets") IN
    IF i > Len(Keys(buckets)) THEN <<>>
    ELSE Push(BucketResults(Get(buckets, Keys(buckets)[i]), opts,
                            FiltersPath(path, FiltersColumnName(opts), Keys(buckets)[i])),
              FiltersResults(agg, opts, path, i + 1))

\* The loop over the buckets of a terms aggregation, from the i-th on.
TermsResults(agg, opts, path, i) ==
    LET buckets == Get(agg, "buckets")[2] IN
    IF i > Len(buckets) THEN <<>>
    ELSE Push(BucketResults(buckets[i], opts,
                            TermsPath(path, TermsColumnName(opts), buckets[i])),
              TermsResults(agg, opts, path, i + 1))

\* processAggregation going through a bucket mapping in an order that changes
\* from one call of esToTable to the next.
processAggregation_RunSeeded(agg, opts, path) ==
    IF IsFilters(agg)
    THEN LET rows == FiltersResults(agg, opts, path, 1) IN
         IF Len(runs) % 2 = 1 THEN [i \in 1..Len(rows) |-> rows[Len(rows) + 1 - i]] ELSE rows
    ELSE IF IsTerms(agg)
    THEN Push(TermsResults(agg, opts, path, 1), OtherRows(agg, TermsColumnName(opts), path))
    ELSE <<>>

\* processAggregation taking a node of neither shape for a leaf bucket.
processAggregation_NodeAsLeaf(agg, opts, path) ==
    IF IsFilters(agg) THEN FiltersResults(agg, opts, path, 1)
    ELSE IF IsTerms(agg)
    THEN Push(TermsResults(agg, opts, path, 1), OtherRows(agg, TermsColumnName(opts), path))
    ELSE << createRowFromBucket(agg, path) >>

processAggregation(agg, opts, path) ==
    IF IsFilters(agg) THEN FiltersResults(agg, opts, path, 1)
    ELSE IF IsTerms(agg)
    THEN Push(TermsResults(agg, opts, path, 1), OtherRows(agg, TermsColumnName(opts), path))
    ELSE <<>>

---------------------------------------------------------------------------
(* The invocations of processAggregation, recorded as the walk makes them *)

\* The buckets an invocation loops over, in loop order.
LoopBuckets(agg) ==
    IF IsFilters(agg)
    THEN [i \in 1..Len(Keys(Get(agg, "buckets"))) |->
             Get(Get(agg, "buckets"), Keys(Get(agg, "buckets"))[i])]
    ELSE IF IsTerms(agg) THEN Get(agg, "buckets")[2]
    ELSE <<>>

\* newPath of the i-th loop iteration.
LoopPath(agg, opts, path, i) ==
    IF IsFilters(agg)
    THEN FiltersPath(path, FiltersColumnName(opts), Keys(Get(agg, "buckets"))[i])
    ELSE TermsPath(path, TermsColumnName(opts), LoopBuckets(agg)[i])

\* One loop iteration: the bucket, its newPath, whether it is a leaf, its rows.
Iteration(agg, opts, path, i) ==
    LET bucket == LoopBuckets(agg)[i]
        newPath == LoopPath(agg, opts, path, i)
        nestedAggs == findNestedAggregations(bucket)
    IN  [bucket |-> bucket,
         newPath |-> newPath,
         leaf |-> Len(nestedAggs) = 0,
         nested |-> [j \in 1..Len(nestedAggs) |->
                        [name |-> nestedAggs[j].name,
                         rows |-> processAggregation(
                                      nestedAggs[j].aggregation,
                                      With(opts, "currentAggregationName",
                                           Str(nestedAggs[j].name)),
                                      newPath)]],
         rows |-> BucketResults(bucket, opts, newPath)]

\* One invocation: its arguments, the column name it uses, its loop iterations,
\* its "_other_" row and the rows it returns. name is the property key the
\* aggregation was found under (undefined for the top-level aggregation).
Invocation(name, agg, opts, path) ==
    LET kind == IF IsFilters(agg) THEN "filters" ELSE IF IsTerms(agg) THEN "terms" ELSE "none"
        iterations == [i \in 1..Len(LoopBuckets(agg)) |-> Iteration(agg, opts, path, i)]
        other == IF kind = "terms" THEN OtherRows(agg, TermsColumnName(opts), path) ELSE <<>>
    IN  [name |-> name, agg |-> agg, opts |-> opts, path |-> path,
         kind |-> kind,
         column |-> IF kind = "filters" THEN FiltersColumnName(opts)
                    ELSE IF kind = "terms" THEN TermsColumnName(opts) ELSE Undef,
         iterations |-> iterations,
         other |-> other,
         rows |-> processAggregation(agg, opts, path)]

RECURSIVE Invocations(_, _, _, _)
RECURSIVE NestedInvocations(_, _, _, _)
RECURSIVE LoopInvocations(_, _, _, _)

\* The invocations made for the nested aggregations of one bucket, from the i-th on.
NestedInvocations(nestedAggs, opts, newPath, i) ==
    IF i > Len(nestedAggs) THEN <<>>
    ELSE Invocations(Str(nestedAggs[i].name), nestedAggs[i].aggregation,
                     With(opts, "currentAggregationName", Str(nestedAggs[i].name)), newPath)
         \o NestedInvocations(nestedAggs, opts, newPath, i + 1)

\* The invocations made by the loop iterations of one invocation, from the i-th on.
LoopInvocations(agg, opts, path, i) ==
    IF i > Len(LoopBuckets(agg)) THEN <<>>
    ELSE NestedInvocations(findNestedAggregations(LoopBuckets(agg)[i]), opts,
                           LoopPath(agg, opts, path, i), 1)
         \o LoopInvocations(agg, opts, path, i + 1)

Invocations(name, agg, opts, path) ==
    <<Invocation(name, agg, opts, path)>> \o LoopInvocations(agg, opts, path, 1)

---------------------------------------------------------------------------
(* Hits mode: isScalar, valueToCell, hitsToTable *)

isScalar(v) == v = Null \/ ~TypeofObject(v)

\* JSON.stringify of the values a _source field holds here.
RECURSIVE JSONstringify(_)
RECURSIVE JSONjoin(_, _)
JSONjoin(texts, i) ==
    IF i > Len(texts) THEN ""
    ELSE (IF i > 1 THEN "," ELSE "") \o texts[i] \o JSONjoin(texts, i + 1)

JSONstringify(v) ==
    CASE v[1] = "number" -> ToString(v[2])
      [] v[1] = "string" -> "\"" \o v[2] \o "\""
      [] v[1] = "array" ->
            "[" \o JSONjoin([i \in 1..Len(v[2]) |->
                                IF v[2][i] \in {Undef, Fn} THEN "null"
                                ELSE JSONstringify(v[2][i])], 1) \o "]"
      [] v[1] = "object" ->
            LET kept == SelectSeq(v[2], LAMBDA p : p[2] \notin {Undef, Fn}) IN
            "{" \o JSONjoin([i \in 1..Len(kept) |->
                                "\"" \o kept[i][1] \o "\":" \o JSONstringify(kept[i][2])], 1)
                \o "}"
      [] OTHER -> "null"

valueToCell(v) == IF isScalar(v) THEN v ELSE Str(JSONstringify(v))

\* h._source || {}
SourceOf(hit) == OrElse(Get(hit, "_source"), Obj(<<>>))

\* colList after the keys of one source object have been scanned from the i-th on.
RECURSIVE SeenKeys(_, _, _)
SeenKeys(colList, keys, i) ==
    IF i > Len(keys) THEN colList
    ELSE SeenKeys(IF \E j \in 1..Len(colList) : colList[j] = keys[i]
                  THEN colList ELSE Append(colList, keys[i]),
                  keys, i + 1)

\* colList after the hits have been scanned from the i-th on.
RECURSIVE ColList(_, _, _)
ColList(colList, hits, i) ==
    IF i > Len(hits) THEN colList
    ELSE ColList(SeenKeys(colList, Keys(SourceOf(hits[i])), 1), hits, i + 1)

\* HitRow without the skip of the "_id" column.
RECURSIVE HitRow_NoSkip(_, _, _, _)
HitRow_NoSkip(row, src, colList, i) ==
    IF i > Len(colList) THEN row
    ELSE HitRow_NoSkip(SetProp(row, colList[i],
                               IF Get(src, colList[i]) = Undef THEN Str("")
                               ELSE valueToCell(Get(src, colList[i]))),
                       src, colList, i + 1)

\* The row of one hit, its columns from the i-th of colList on.
RECURSIVE HitRow(_, _, _, _)
HitRow(row, src, colList, i) ==
    IF i > Len(colList) THEN row
    ELSE HitRow(IF colList[i] = "_id" THEN row
                ELSE SetProp(row, colList[i],
                             IF Get(src, colList[i]) = Undef THEN Str("")
                             ELSE valueToCell(Get(src, colList[i]))),
                src, colList, i + 1)

hitsToTable(hits) ==
    LET colList == ColList(<<"_id">>, hits, 1) IN
    [i \in 1..Len(hits) |->
        Obj(HitRow(<< <<"_id", Get(hits[i], "_id")>> >>, SourceOf(hits[i]), colList, 1))]

---------------------------------------------------------------------------
(* The CSV encoder: escapeCSV, tableToCSV *)

\* texts[i], ..., texts[Len(texts)] with sep between them: Array.prototype.join
RECURSIVE Join(_, _, _)
Join(texts, sep, i) ==
    IF i > Len(texts) THEN ""
    ELSE texts[i] \o (IF i < Len(texts) THEN sep ELSE "") \o Join(texts, sep, i + 1)

\* String(value)
RECURSIVE String(_)
String(value) ==
    CASE value[1] = "string" -> value[2]
      [] value[1] = "number" -> ToString(value[2])
      [] value[1] = "boolean" -> IF value[2] THEN "true" ELSE "false"
      [] value[1] = "null" -> "null"
      [] value[1] = "undefined" -> "undefined"
      [] value[1] = "function" -> "function Object() { [native code] }"
      [] value[1] = "array" ->
            Join([i \in 1..Len(value[2]) |->
                     IF value[2][i] \in {Undef, Null} THEN "" ELSE String(value[2][i])],
                 ",", 1)
      [] value[1] = "object" -> "[object Object]"

\* str.includes(c) for a one-character c
Includes(str, c) == \E i \in 1..Len(str) : SubSeq(str, i, i) = c

\* str.replace(/"/g, '""') from the i-th character on
RECURSIVE DoubleQuotes(_, _)
DoubleQuotes(str, i) ==
    IF i > Len(str) THEN ""
    ELSE (IF SubSeq(str, i, i) = "\"" THEN "\"\"" ELSE SubSeq(str, i, i))
         \o DoubleQuotes(str, i + 1)

escapeCSV(value) ==
    IF value \in {Null, Undef} THEN ""
    ELSE LET str == String(value) IN
         IF Includes(str, ",") \/ Includes(str, "\n") \/ Includes(str, "\"")
         THEN "\"" \o DoubleQuotes(str, 1) \o "\""
         ELSE str

\* row[h] !== undefined && row[h] !== null ? row[h] : ''
CellOf(row, h) == IF Get(row, h) \notin {Undef, Null} THEN Get(row, h) ELSE Str("")

\* The line of one row: its cells under the headers, joined by the delimiter.
RowLine(row, headers, delimiter) ==
    Join([i \in 1..Len(headers) |-> escapeCSV(CellOf(row, headers[i]))], delimiter, 1) \o "\n"

\* The lines of the rows from the i-th on.
RECURSIVE RowLines(_, _, _, _)
RowLines(rows, headers, delimiter, i) ==
    IF i > Len(rows) THEN ""
    ELSE RowLine(rows[i], headers, delimiter) \o RowLines(rows, headers, delimiter, i + 1)

tableToCSV(tbl, opts) ==
    IF Length(tbl) = 0 THEN ""
    ELSE LET headers == Keys(tbl[2][1])
             delimiter == String(OrElse(Get(opts, "delimiter"), Str(",")))
             includeHeaders == Get(opts, "includeHeaders") # Bool(FALSE)
         IN  (IF includeHeaders
              THEN Join([i \in 1..Len(headers) |-> escapeCSV(Str(headers[i]))], delimiter, 1)
                   \o "\n"
              ELSE "")
             \o RowLines(tbl[2], headers, delimiter, 1)

---------------------------------------------------------------------------
(* The dispatcher: esToTable *)

\* throw new Error(`Aggregation "${aggName}" not found`)
AggregationNotFound == <<"throw", "AggregationNotFound">>

\* throw new Error('No aggregations or hits found in Elasticsearch output')
NoDataError == <<"throw", "NoDataError">>

Return(rows) == <<"return", Arr(rows)>>

\* esOutput.hits?.hits
HitsOf(response) ==
    IF Get(response, "hits") \in {Undef, Null} THEN Undef
    ELSE Get(Get(response, "hits"), "hits")

\* aggregations && Object.keys(aggregations).length > 0
HasAggregations(response) ==
    /\ Truthy(Get(response, "aggregations"))
    /\ Len(Keys(Get(response, "aggregations"))) > 0

\* ChosenName defaulting to the last key of the mapping.
ChosenName_LastKey(response, opts) ==
    OrElse(Get(opts, "aggregationName"),
           Str(Keys(Get(response, "aggregations"))[Len(Keys(Get(response, "aggregations")))]))

\* options.aggregationName || Object.keys(aggregations)[0]
ChosenName(response, opts) ==
    OrElse(Get(opts, "aggregationName"), Str(Keys(Get(response, "aggregations"))[1]))

\* aggregations[aggName]
ChosenAggregation(response, opts) ==
    Get(Get(response, "aggregations"), ChosenName(response, opts)[2])

\* { ...options, topLevelAggregationName, filterColumnName }
processOptions(response, opts) ==
    With(With(opts, "topLevelAggregationName", ChosenName(response, opts)),
         "filterColumnName",
         OrElse(Get(opts, "filterColumnName"), ChosenName(response, opts)))

\* HasHits without the length test.
HasHits_AnyArray(response) == IsArray(HitsOf(response))

\* Array.isArray(hits) && hits.length > 0
HasHits(response) == IsArray(HitsOf(response)) /\ Length(HitsOf(response)) > 0

\* esToTable turning to the hits when the walker returns no rows.
esToTable_HitsFallback(response, opts) ==
    IF HasAggregations(response)
       /\ ~(Truthy(ChosenAggregation(response, opts))
            /\ processAggregation(ChosenAggregation(response, opts),
                                  processOptions(response, opts), <<>>) = <<>>
            /\ IsArray(HitsOf(response)) /\ Length(HitsOf(response)) > 0)
    THEN IF ~Truthy(ChosenAggregation(response, opts))
         THEN AggregationNotFound
         ELSE Return(processAggregation(ChosenAggregation(response, opts),
                                        processOptions(response, opts), <<>>))
    ELSE IF IsArray(HitsOf(response)) /\ Length(HitsOf(response)) > 0
    THEN Return(hitsToTable(HitsOf(response)[2]))
    ELSE NoDataError

\* esToTable collecting its rows in an array that outlives the call.
esToTable_KeptResults(response, opts) ==
    LET kept == IF result[1] = "return" THEN result[2][2] ELSE <<>> IN
    IF HasAggregations(response)
    THEN IF ~Truthy(ChosenAggregation(response, opts))
         THEN AggregationNotFound
         ELSE Return(kept \o processAggregation(ChosenAggregation(response, opts),
                                                processOptions(response, opts), <<>>))
    ELSE IF HasHits(response)
    THEN Return(kept \o hitsToTable(HitsOf(response)[2]))
    ELSE NoDataError

esToTable(response, opts) ==
    IF HasAggregations(response)
    THEN IF ~Truthy(ChosenAggregation(response, opts))
         THEN AggregationNotFound
         ELSE Return(processAggregation(ChosenAggregation(response, opts),
                                        processOptions(response, opts), <<>>))
    ELSE IF HasHits(response)
    THEN Return(hitsToTable(HitsOf(response)[2]))
    ELSE NoDataError

\* The invocations of processAggregation esToTable makes.
WalkOf(response, opts) ==
    IF HasAggregations(response) /\ Truthy(ChosenAggregation(response, opts))
    THEN Invocations(Undef, ChosenAggregation(response, opts),
                     processOptions(response, opts), <<>>)
    ELSE <<>>

---------------------------------------------------------------------------
(* The responses and options esToTable is called with *)

\* The most buckets one aggregation holds.
MaxBuckets == 2

\* The largest sum_other_doc_count of a terms aggregation.
MaxOther == 1

\* The most hits of a response.
MaxHits == 2

\* The deepest chain of single-bucket aggregations nested below a bucket.
MaxChain == 2

\* The most rows of a table handed to tableToCSV.
MaxRows == 2

SeqsUpTo(S, n) == UNION {[1..k -> S] : k \in 0..n}

\* Sequences of at most n buckets, at most one of them outside Plain.
SeqsOneSpecial(Plain, Special, n) ==
    SeqsUpTo(Plain, n) \cup
    {[i \in 1..Len(s) |-> IF i = j THEN b ELSE s[i]] :
        <<s, j, b>> \in {t \in SeqsUpTo(Plain, n) \X (1..n) \X Special : t[2] <= Len(t[1])}}

Key(k) == << <<"key", k>> >>
KeyAs(k, text) == << <<"key", k>>, <<"key_as_string", Str(text)>> >>
DocCount(n) == << <<"doc_count", Num(n)>> >>
Metric(name, props) == << <<name, Obj(props)>> >>

\* The bucket a terms aggregation usually returns.
PlainLeaves == {Obj(Key(Num(1)) \o DocCount(1))}

RichKeys ==
    {<<>>, Key(Num(1)), KeyAs(Num(2), "A"), Key(Str("_other_")), Key(Str("p")),
     KeyAs(Num(1), "_other_")}

RichRest ==
    {<<>>, DocCount(1),
     DocCount(1) \o Metric("m", << <<"value", Num(7)>> >>),
     DocCount(1) \o Metric("m", << <<"doc_count", Num(3)>>, <<"value", Num(7)>> >>),
     DocCount(1) \o Metric("m", <<>>),
     DocCount(1) \o Metric("x", << <<"value", Num(7)>> >>)}

RichLeaves == {Obj(k \o r) : <<k, r>> \in RichKeys \X RichRest}

InnerSpecial ==
    {Obj(Key(Str("_other_")) \o DocCount(1)),
     Obj(KeyAs(Num(2), "A") \o DocCount(2) \o Metric("m", << <<"value", Num(7)>> >>))}

OtherCounts(n) == {<<>>} \cup {<< <<"sum_other_doc_count", Num(k)>> >> : k \in 0..n}

\* { buckets: [...], sum_other_doc_count }
Terms(buckets, other) == Obj(<< <<"buckets", Arr(buckets)>> >> \o other)

FilterNames == <<"p", "q", "r", "s">>

\* { buckets: { p: ..., q: ... } }
Filters(buckets) ==
    Obj(<< <<"buckets", Obj([i \in 1..Len(buckets) |-> <<FilterNames[i], buckets[i]>>])>> >>)

NodesOver(bucketSeqs, others) ==
    {Terms(b, o) : <<b, o>> \in bucketSeqs \X others} \cup {Filters(b) : b \in bucketSeqs}

\* Nodes that are neither terms nor filters aggregations.
OddNodes ==
    {Obj(<< <<"buckets", Null>> >>), Obj(<< <<"buckets", Num(5)>> >>)}

MetricNode == Obj(<< <<"value", Num(7)>> >>)

AggNames == {"x", "y"}

TinyNodes ==
    {Terms(<<Obj(Key(Num(1)) \o DocCount(1))>>, <<>>),
     Terms(<<>>, <<>>),
     Filters(<<Obj(DocCount(2))>>)}

\* Chains of single-bucket aggregations: each bucket holds the next aggregation.
RECURSIVE Chains(_)
Chains(d) ==
    IF d = 0 THEN TinyNodes
    ELSE LET below == Chains(d - 1)
             Link(name, c) == Obj(Key(Num(1)) \o DocCount(1) \o << <<name, c>> >>)
         IN  below \cup
             {Terms(<<Link("y", c)>>, << <<"sum_other_doc_count", Num(1)>> >>) : c \in below} \cup
             {Filters(<<Link("x", c)>>) : c \in below}

\* The aggregations nested in a bucket of the top-level aggregation.
InnerNodes ==
    NodesOver(SeqsOneSpecial(PlainLeaves, InnerSpecial, MaxBuckets),
              {<<>>, << <<"sum_other_doc_count", Num(1)>> >>})
    \cup OddNodes \cup Chains(MaxChain - 1)

NestedKeys == {<<>>, Key(Num(1)), KeyAs(Num(2), "A")}

\* Buckets holding one nested aggregation, or two, or a metric beside one.
NestedBuckets ==
    {Obj(k \o DocCount(1) \o << <<n, a>> >>) :
        <<k, n, a>> \in NestedKeys \X AggNames \X InnerNodes}
    \cup
    {Obj(k \o DocCount(1) \o << <<n[1], a>>, <<n[2], b>> >>) :
        <<k, n, a, b>> \in NestedKeys \X {<<"x", "y">>, <<"y", "x">>} \X TinyNodes \X TinyNodes}
    \cup
    {Obj(k \o DocCount(1) \o Metric("m", << <<"value", Num(7)>> >>) \o << <<"y", a>> >>) :
        <<k, a>> \in NestedKeys \X TinyNodes}

\* The aggregations walked in depth.
WalkNodes ==
    NodesOver(SeqsOneSpecial(PlainLeaves, RichLeaves \cup NestedBuckets, MaxBuckets),
              OtherCounts(MaxOther))

\* The aggregations of a response whose dispatch is explored.
SmallNodes ==
    {Terms(<<Obj(Key(Num(1)) \o DocCount(1))>>, << <<"sum_other_doc_count", Num(1)>> >>),
     Filters(<<Obj(DocCount(2))>>),
     Terms(<<>>, <<>>),
     MetricNode}

Hit(id, source) == Obj(<< <<"_id", Str(id)>> >> \o source)

HitPool ==
    {Hit("1", << <<"_source", Obj(<< <<"a", Num(1)>> >>)>> >>),
     Hit("2", << <<"_source", Obj(<< <<"a", Num(2)>>, <<"b", Arr(<<Num(1), Num(2)>>)>> >>)>> >>),
     Hit("3", << <<"_source", Obj(<< <<"_id", Str("9")>>, <<"c", Null>> >>)>> >>),
     Hit("4", <<>>),
     Hit("5", << <<"_source", Obj(<< <<"1", Str("z")>>,
                                     <<"d", Obj(<< <<"k", Str("v")>> >>)>> >>)>> >>),
     Hit("6", << <<"_source", Obj(<< <<"constructor", Str("k")>> >>)>> >>)}

\* The hits part of a response: absent, without hits.hits, or with a hit sequence
\* of at most n hits.
HitsParts(n) ==
    {<<>>, << <<"hits", Obj(<<>>)>> >>}
    \cup {<< <<"hits", Obj(<< <<"hits", Arr(h)>> >>)>> >> : h \in SeqsUpTo(HitPool, n)}

\* The aggregations part of a response: absent, empty, one or two aggregations.
AggregationsParts(nodes) ==
    {<<>>, << <<"aggregations", Obj(<<>>)>> >>}
    \cup {<< <<"aggregations", Obj(<< <<"x", a>> >>)>> >> : a \in nodes}
    \cup {<< <<"aggregations", Obj(<< <<n[1], a>>, <<n[2], b>> >>)>> >> :
             <<n, a, b>> \in {<<"x", "y">>, <<"y", "x">>} \X nodes \X nodes}

OptionsParts(names, columns) ==
    {Obj(a \o f) :
        <<a, f>> \in ({<<>>} \cup {<< <<"aggregationName", Str(n)>> >> : n \in names})
                     \X ({<<>>} \cup {<< <<"filterColumnName", Str(c)>> >> : c \in columns})}

\* Responses with one deep aggregation.
WalkCalls ==
    {<<Obj(<< <<"aggregations", Obj(<< <<"x", a>> >>)>> >>), o>> :
        <<a, o>> \in WalkNodes \X OptionsParts({}, {"f"})}

\* Responses with every combination of aggregations, at most one hit and options.
DispatchCalls ==
    {<<Obj(a \o h), o>> :
        <<a, h, o>> \in AggregationsParts(SmallNodes) \X HitsParts(1)
                        \X OptionsParts({"", "x", "y", "z", "constructor"}, {"f"})}

\* Responses with hits and no aggregations, or an empty aggregations mapping.
HitsCalls ==
    {<<Obj(a \o h), Obj(<<>>)>> :
        <<a, h>> \in AggregationsParts({}) \X HitsParts(MaxHits)}

Calls == WalkCalls \cup DispatchCalls \cup HitsCalls

\* Rows of a table: plain cells, cells with a comma, a quote, a newline or a
\* semicolon, a null cell, rows lacking a column or bringing another one, a
\* column named like an inherited member, a column name with a semicolon, and
\* the empty row.
RowPool ==
    {Obj(<< <<"a", Str("p")>>, <<"b", Num(1)>> >>),
     Obj(<< <<"a", Str("x,y")>>, <<"b", Str("q\"r")>> >>),
     Obj(<< <<"a", Str("l\nm")>>, <<"b", Str("s;t")>> >>),
     Obj(<< <<"a", Null>>, <<"b", Num(-3)>> >>),
     Obj(<< <<"b", Num(2)>>, <<"c", Str("e")>> >>),
     Obj(<< <<"a", Str("u")>>, <<"constructor", Num(3)>> >>),
     Obj(<< <<"a;b", Num(1)>> >>),
     Obj(<<>>)}

Tables == {Arr(rows) : rows \in SeqsUpTo(RowPool, MaxRows)}

\* The options of tableToCSV: delimiter absent, empty, comma or semicolon;
\* includeHeaders absent, false or true.
CsvOptionsParts ==
    {Obj(d \o h) :
        <<d, h>> \in ({<<>>} \cup {<< <<"delimiter", Str(c)>> >> : c \in {"", ",", ";"}})
                     \X ({<<>>} \cup {<< <<"includeHeaders", Bool(b)>> >> : b \in BOOLEAN})}

CsvCalls == Tables \X CsvOptionsParts

---------------------------------------------------------------------------
(* The state machine: one call of esToTable, or one call of tableToCSV *)

NoResult == <<"none">>

\* No server is part of a call of the core functions.
NoServer ==
    /\ files = NoResult /\ dirs = NoResult /\ served = NoResult
    /\ service = NoResult /\ tasks = NoResult /\ engine = NoResult /\ ran = NoResult

InitEsToTable ==
    /\ \E call \in Calls : esOutput = call[1] /\ options = call[2]
    /\ pc = "start"
    /\ result = NoResult
    /\ calls = <<>>
    /\ table = NoResult
    /\ csvOptions = NoResult
    /\ csv = NoResult
    /\ runs = <<>>
    /\ alone = NoResult
    /\ NoServer

InitTableToCSV ==
    /\ \E call \in CsvCalls : table = call[1] /\ csvOptions = call[2]
    /\ pc = "csvstart"
    /\ csv = NoResult
    /\ esOutput = NoResult
    /\ options = NoResult
    /\ result = NoResult
    /\ calls = <<>>
    /\ runs = <<>>
    /\ alone = NoResult
    /\ NoServer

Init == InitEsToTable \/ InitTableToCSV

CallEsToTable ==
    /\ pc = "start"
    /\ result' = esToTable(esOutput, options)
    /\ calls' = WalkOf(esOutput, options)
    /\ pc' = "done"
    /\ UNCHANGED <<esOutput, options, table, csvOptions, csv, runs, alone,
                 files, dirs, served, service, tasks, engine, ran>>

CallTableToCSV ==
    /\ pc = "csvstart"
    /\ csv' = tableToCSV(table, csvOptions)
    /\ pc' = "csvdone"
    /\ UNCHANGED <<esOutput, options, result, calls, table, csvOptions, runs, alone,
                 files, dirs, served, service, tasks, engine, ran>>

Next == CallEsToTable \/ CallTableToCSV

Spec == Init /\ [][Next]_vars

---------------------------------------------------------------------------
(* Repeated calls: the callers of one module call esToTable on a response,  *)
(* tableToCSV on a table and, as convertFile does, tableToCSV on the rows   *)
(* esToTable returned, in any order, each call running to its end before    *)
(* the next one starts.                                                     *)

\* The most calls made in a row.
MaxRuns == 3

\* A terms aggregation with a filters aggregation nested in its bucket.
NestedNode ==
    Terms(<<Obj(Key(Num(1)) \o DocCount(3)
               \o << <<"y", Filters(<<Obj(DocCount(1)),
                                      Obj(DocCount(2) \o Metric("m", << <<"value", Num(7)>> >>))>>)>> >>)>>,
          << <<"sum_other_doc_count", Num(1)>> >>)

RunResponses ==
    {Obj(a \o h) :
        <<a, h>> \in ({<<>>} \cup {<< <<"aggregations", Obj(<< <<"x", n>> >>)>> >> :
                                    n \in SmallNodes \cup {NestedNode}})
                     \X HitsParts(1)}

RunCalls == RunResponses \X OptionsParts({"x"}, {})

RunCsvCalls == {<<Arr(<<r>>), Obj(<<>>)>> : r \in RowPool}

InitRuns ==
    /\ \E call \in RunCalls : esOutput = call[1] /\ options = call[2]
    /\ \E call \in RunCsvCalls : table = call[1] /\ csvOptions = call[2]
    /\ pc = "runs"
    /\ result = NoResult
    /\ calls = <<>>
    /\ csv = NoResult
    /\ runs = <<>>
    /\ alone = [esToTable |-> esToTable(esOutput, options),
                tableToCSV |-> tableToCSV(table, csvOptions),
                ofRows |-> IF esToTable(esOutput, options)[1] = "return"
                           THEN tableToCSV(esToTable(esOutput, options)[2], options)
                           ELSE ""]
    /\ NoServer

RunEsToTable ==
    /\ pc = "runs"
    /\ Len(runs) < MaxRuns
    /\ result' = esToTable(esOutput, options)
    /\ calls' = WalkOf(esOutput, options)
    /\ runs' = Append(runs, <<"esToTable", result'>>)
    /\ UNCHANGED <<esOutput, options, pc, table, csvOptions, csv, alone,
                 files, dirs, served, service, tasks, engine, ran>>

RunTableToCSV ==
    /\ pc = "runs"
    /\ Len(runs) < MaxRuns
    /\ csv' = tableToCSV(table, csvOptions)
    /\ runs' = Append(runs, <<"tableToCSV", csv'>>)
    /\ UNCHANGED <<esOutput, options, pc, result, calls, table, csvOptions, alone,
                 files, dirs, served, service, tasks, engine, ran>>

\* const table = esToTable(esOutput, options); const csv = tableToCSV(table, options)
RunTableToCSVOnRows ==
    /\ pc = "runs"
    /\ Len(runs) < MaxRuns
    /\ result[1] = "return"
    /\ csv' = tableToCSV(result[2], options)
    /\ runs' = Append(runs, <<"tableToCSV of the rows", csv'>>)
    /\ UNCHANGED <<esOutput, options, pc, result, calls, table, csvOptions, alone,
                 files, dirs, served, service, tasks, engine, ran>>

NextRuns == RunEsToTable \/ RunTableToCSV \/ RunTableToCSVOnRows

SpecRuns == InitRuns /\ [][NextRuns]_vars

---------------------------------------------------------------------------
(* What the claims speak of, read off the response, the options and the     *)
(* outcome                                                                  *)

Done == pc = "done"
Returned == result[1] = "return"
Rows == result[2][2]

\* The response has a non-empty aggregations mapping.
NonEmptyAggregations ==
    /\ HasOwn(esOutput, "aggregations")
    /\ IsObject(OwnValue(esOutput, "aggregations"))
    /\ Len(Props(OwnValue(esOutput, "aggregations"))) > 0

AggregationKeys == Keys(OwnValue(esOutput, "aggregations"))

IsKey(name) == \E i \in 1..Len(AggregationKeys) : AggregationKeys[i] = name

\* An option is given: present and not the empty string.
Given(option) == HasOwn(options, option) /\ OwnValue(options, option) # Str("")

\* The name of the aggregation to convert: the option, else the first key.
ChosenKey ==
    IF Given("aggregationName") THEN OwnValue(options, "aggregationName")[2]
    ELSE AggregationKeys[1]

\* The response has a non-empty hit sequence.
NonEmptyHits ==
    /\ HasOwn(esOutput, "hits")
    /\ HasOwn(OwnValue(esOutput, "hits"), "hits")
    /\ OwnValue(OwnValue(esOutput, "hits"), "hits")[1] = "array"
    /\ Len(OwnValue(OwnValue(esOutput, "hits"), "hits")[2]) > 0

\* A node with a bucket sequence, and one with a bucket mapping.
TermsShaped(agg) == HasOwn(agg, "buckets") /\ OwnValue(agg, "buckets")[1] = "array"
FiltersShaped(agg) == HasOwn(agg, "buckets") /\ OwnValue(agg, "buckets")[1] = "object"

\* A bucket one of whose properties holds an object with a buckets property.
HoldsAggregation(bucket) ==
    \E i \in 1..Len(Props(bucket)) :
        /\ Props(bucket)[i][1] \notin skipKeys
        /\ HasOwn(Props(bucket)[i][2], "buckets")

\* sum_other_doc_count of a node, 0 when absent
OtherCount(agg) ==
    IF HasOwn(agg, "sum_other_doc_count") THEN OwnValue(agg, "sum_other_doc_count")[2] ELSE 0

\* The key of a bucket as the walker reads it: key_as_string, else key.
BucketKey(bucket) ==
    IF HasOwn(bucket, "key_as_string") THEN OwnValue(bucket, "key_as_string")
    ELSE IF HasOwn(bucket, "key") THEN OwnValue(bucket, "key")
    ELSE Undef

Concat(a, b) == a \o b

RECURSIVE Flatten(_, _)
Flatten(seqs, i) == IF i > Len(seqs) THEN <<>> ELSE seqs[i] \o Flatten(seqs, i + 1)

\* How many rows hold value under column.
CountCells(rows, column, value) ==
    Cardinality({i \in 1..Len(rows) : HasOwn(rows[i], column) /\ OwnValue(rows[i], column) = value})

PathColumnNames(path) == {path[i].column[2] : i \in 1..Len(path)}

---------------------------------------------------------------------------
(* C1: a terms aggregation with N top-level buckets, none holding a nested  *)
(* aggregation, converts to exactly N rows when sum_other_doc_count is      *)
(* absent or not greater than 0, and to exactly N + 1 rows when it is       *)
(* greater than 0.                                                          *)

C1_Case ==
    /\ Done
    /\ Len(calls) > 0
    /\ TermsShaped(calls[1].agg)
    /\ \A i \in 1..Len(OwnValue(calls[1].agg, "buckets")[2]) :
           ~HoldsAggregation(OwnValue(calls[1].agg, "buckets")[2][i])

C1_TermsRowCount ==
    C1_Case =>
        /\ Returned
        /\ Len(Rows) = Len(OwnValue(calls[1].agg, "buckets")[2])
                       + (IF OtherCount(calls[1].agg) > 0 THEN 1 ELSE 0)

C1_Witness ==
    /\ C1_Case
    /\ Len(OwnValue(calls[1].agg, "buckets")[2]) = 2
    /\ OtherCount(calls[1].agg) > 0
    /\ Len(Rows) = 3

---------------------------------------------------------------------------
(* C2: a terms node with sum_other_doc_count = k > 0 and no explicit bucket *)
(* whose key (key_as_string, else key) is "_other_" contributes, among the  *)
(* rows it creates itself (the rows of its leaf buckets and its remainder   *)
(* row), exactly one row whose value in the node's column is "_other_":     *)
(* the last row it returns, with doc_count = k, with every column of the    *)
(* node's ancestor path and with no metric column. A node whose             *)
(* sum_other_doc_count is absent or not greater than 0 creates no such row. *)

\* The rows an invocation creates itself: its leaf rows, then its remainder row.
CreatedRows(inv) ==
    Flatten([i \in 1..Len(inv.iterations) |->
                IF inv.iterations[i].leaf THEN inv.iterations[i].rows ELSE <<>>], 1)
    \o inv.other

NoOtherKey(agg) ==
    \A i \in 1..Len(OwnValue(agg, "buckets")[2]) :
        BucketKey(OwnValue(agg, "buckets")[2][i]) # Str("_other_")

IsRemainderRow(row, inv) ==
    /\ OwnValue(row, inv.column[2]) = Str("_other_")
    /\ HasOwn(row, "doc_count")
    /\ OwnValue(row, "doc_count") = Num(OtherCount(inv.agg))
    /\ \A c \in PathColumnNames(inv.path) : HasOwn(row, c)
    /\ \A j \in 1..Len(Keys(row)) :
           Keys(row)[j] \in PathColumnNames(inv.path) \cup {inv.column[2], "doc_count"}

C2_Node(inv) ==
    (TermsShaped(inv.agg) /\ NoOtherKey(inv.agg)) =>
        IF OtherCount(inv.agg) > 0
        THEN /\ CountCells(CreatedRows(inv), inv.column[2], Str("_other_")) = 1
             /\ Len(inv.rows) > 0
             /\ inv.rows[Len(inv.rows)] = CreatedRows(inv)[Len(CreatedRows(inv))]
             /\ IsRemainderRow(inv.rows[Len(inv.rows)], inv)
        ELSE CountCells(CreatedRows(inv), inv.column[2], Str("_other_")) = 0

C2_OtherRow == Done => \A n \in 1..Len(calls) : C2_Node(calls[n])

C2_Witness ==
    /\ Done
    /\ \E n \in 1..Len(calls) :
           /\ TermsShaped(calls[n].agg) /\ NoOtherKey(calls[n].agg)
           /\ OtherCount(calls[n].agg) > 0
           /\ Len(calls[n].path) > 0
           /\ Len(calls[n].iterations) > 0
           /\ IsRemainderRow(calls[n].rows[Len(calls[n].rows)], calls[n])

---------------------------------------------------------------------------
(* C3: the rows are in depth-first, left-to-right order of the buckets: an  *)
(* invocation returns the rows of its first bucket, then those of its       *)
(* second, and so on, and the "_other_" row of a terms node last; a bucket  *)
(* with nested aggregations has the rows of its first nested aggregation,   *)
(* then those of the next; esToTable returns the rows of the top-level      *)
(* invocation.                                                              *)

C3_Node(inv) ==
    /\ inv.rows = Concat(Flatten([i \in 1..Len(inv.iterations) |-> inv.iterations[i].rows], 1),
                         inv.other)
    /\ \A i \in 1..Len(inv.iterations) :
           ~inv.iterations[i].leaf =>
               inv.iterations[i].rows =
                   Flatten([j \in 1..Len(inv.iterations[i].nested) |->
                               inv.iterations[i].nested[j].rows], 1)

C3_RowOrder ==
    (Done /\ Len(calls) > 0) =>
        /\ Returned /\ Rows = calls[1].rows
        /\ \A n \in 1..Len(calls) : C3_Node(calls[n])

C3_Witness ==
    /\ Done /\ Len(calls) > 1
    /\ Len(calls[1].iterations) = 2
    /\ ~calls[1].iterations[1].leaf
    /\ Len(calls[1].iterations[1].rows) = 2
    /\ Len(calls[1].other) = 1
    /\ Len(Rows) = 4
    /\ Rows[1] # Rows[2] /\ Rows[2] # Rows[3] /\ Rows[3] # Rows[4]

---------------------------------------------------------------------------
(* C4: for a bucket with both key and key_as_string, what the walker emits  *)
(* for it is key_as_string and never key: the path entry a terms node       *)
(* appends for it, the "key" cell of its leaf row, and the cell of its leaf *)
(* row under the terms node's column (where no metric of the bucket has     *)
(* that name).                                                              *)

HasBothKeys(bucket) == HasOwn(bucket, "key") /\ HasOwn(bucket, "key_as_string")

C4_Iteration(inv, it) ==
    HasBothKeys(it.bucket) =>
        /\ inv.kind = "terms" =>
               /\ Len(it.newPath) = Len(inv.path) + 1
               /\ it.newPath[Len(it.newPath)].value = OwnValue(it.bucket, "key_as_string")
               /\ it.newPath[Len(it.newPath)].value # OwnValue(it.bucket, "key")
        /\ (it.leaf /\ HasOwn(it.rows[1], "key")) =>
               OwnValue(it.rows[1], "key") = OwnValue(it.bucket, "key_as_string")
        /\ (it.leaf /\ inv.kind = "terms" /\ ~HasOwn(it.bucket, inv.column[2])) =>
               OwnValue(it.rows[1], inv.column[2]) = OwnValue(it.bucket, "key_as_string")

C4_KeyAsStringPreferred ==
    Done => \A n \in 1..Len(calls) :
                \A i \in 1..Len(calls[n].iterations) :
                    C4_Iteration(calls[n], calls[n].iterations[i])

C4_Witness ==
    /\ Done
    /\ \E n \in 1..Len(calls) : \E i \in 1..Len(calls[n].iterations) :
           /\ calls[n].kind = "filters"
           /\ HasBothKeys(calls[n].iterations[i].bucket)
           /\ calls[n].iterations[i].leaf
           /\ HasOwn(calls[n].iterations[i].rows[1], "key")
    /\ \E n \in 1..Len(calls) : \E i \in 1..Len(calls[n].iterations) :
           /\ calls[n].kind = "terms"
           /\ HasBothKeys(calls[n].iterations[i].bucket)
           /\ ~calls[n].iterations[i].leaf

---------------------------------------------------------------------------
(* C5: the column of a top-level filters aggregation is the filterColumnName *)
(* option when one is given, else the name of the aggregation; the column   *)
(* of a filters aggregation nested in a bucket is its own property key. The *)
(* node appends (column, bucket name) to the path for each of its buckets,  *)
(* and every row of the bucket has that column.                             *)

FiltersColumn(inv) ==
    IF inv.name # Undef THEN inv.name
    ELSE IF Given("filterColumnName") THEN OwnValue(options, "filterColumnName")
    ELSE Str(ChosenKey)

C5_Node(inv) ==
    FiltersShaped(inv.agg) =>
        /\ Len(inv.iterations) = Len(Keys(OwnValue(inv.agg, "buckets")))
        /\ \A i \in 1..Len(inv.iterations) :
               /\ inv.iterations[i].newPath =
                      Append(inv.path,
                             [column |-> FiltersColumn(inv),
                              value |-> Str(Keys(OwnValue(inv.agg, "buckets"))[i])])
               /\ \A r \in 1..Len(inv.iterations[i].rows) :
                      HasOwn(inv.iterations[i].rows[r], FiltersColumn(inv)[2])

---------------------------------------------------------------------------
(* C6: the column of a terms node is the property key of the nested         *)
(* aggregation that produced it when it is nested, and the chosen top-level *)
(* aggregation name when it is the top-level aggregation, whatever the      *)
(* filterColumnName option: the node appends (column, key) to the path for  *)
(* each bucket that has a key, and its "_other_" row holds "_other_" under  *)
(* that column.                                                             *)

TermsColumn(inv) == IF inv.name # Undef THEN inv.name ELSE Str(ChosenKey)

C6_Node(inv) ==
    TermsShaped(inv.agg) =>
        /\ Len(inv.iterations) = Len(OwnValue(inv.agg, "buckets")[2])
        /\ \A i \in 1..Len(inv.iterations) :
               BucketKey(inv.iterations[i].bucket) # Undef =>
                   inv.iterations[i].newPath =
                       Append(inv.path,
                              [column |-> TermsColumn(inv),
                               value |-> BucketKey(inv.iterations[i].bucket)])
        /\ OtherCount(inv.agg) > 0 =>
               /\ Len(inv.other) = 1
               /\ HasOwn(inv.other[1], TermsColumn(inv)[2])
               /\ OwnValue(inv.other[1], TermsColumn(inv)[2]) = Str("_other_")
        /\ Given("filterColumnName") =>
               \A r \in 1..Len(inv.rows) :
                   HasOwn(inv.rows[r], OwnValue(options, "filterColumnName")[2])
                       => \E p \in 1..Len(inv.path) :
                              inv.path[p].column = OwnValue(options, "filterColumnName")

---------------------------------------------------------------------------
(* C7: esToTable fails with NoDataError, returning no rows, when the        *)
(* response has no aggregations or an empty aggregations mapping, and no    *)
(* hits.hits or an empty hit sequence.                                      *)

NoAggregations ==
    \/ ~HasOwn(esOutput, "aggregations")
    \/ OwnValue(esOutput, "aggregations") = Obj(<<>>)

NoHits ==
    \/ ~HasOwn(esOutput, "hits")
    \/ ~HasOwn(OwnValue(esOutput, "hits"), "hits")
    \/ OwnValue(OwnValue(esOutput, "hits"), "hits") = Arr(<<>>)

C7_NoDataError == (Done /\ NoAggregations /\ NoHits) => result = <<"throw", "NoDataError">>

C7_Witness ==
    /\ Done
    /\ HasOwn(esOutput, "aggregations") /\ NoAggregations
    /\ HasOwn(esOutput, "hits") /\ HasOwn(OwnValue(esOutput, "hits"), "hits") /\ NoHits
    /\ result = <<"throw", "NoDataError">>

---------------------------------------------------------------------------
(* C8: with a non-empty aggregations mapping and an aggregationName option  *)
(* that is not a key of the mapping, esToTable fails with                   *)
(* AggregationNotFound.                                                     *)

C8_AggregationNotFound ==
    (Done /\ NonEmptyAggregations /\ Given("aggregationName") /\ ~IsKey(ChosenKey))
        => result = <<"throw", "AggregationNotFound">>

---------------------------------------------------------------------------
(* C9: aggregations take priority over hits. With a non-empty aggregations  *)
(* mapping whose chosen aggregation exists, esToTable returns exactly the   *)
(* rows of the walk of that aggregation, whatever hits.hits holds and even  *)
(* when the walk returns no rows; it returns a table without having walked  *)
(* an aggregation, the hits table with one row per hit led by _id, only     *)
(* when aggregations is absent or empty and hits.hits is a non-empty        *)
(* sequence.                                                                *)

HitsSequence == OwnValue(OwnValue(esOutput, "hits"), "hits")[2]

C9_AggregationsFirst ==
    Done =>
        /\ (NonEmptyAggregations /\ IsKey(ChosenKey)) =>
               /\ Len(calls) > 0
               /\ calls[1].agg = OwnValue(OwnValue(esOutput, "aggregations"), ChosenKey)
               /\ result = <<"return", Arr(calls[1].rows)>>
        /\ (NonEmptyAggregations /\ Returned) =>
               /\ Len(calls) > 0
               /\ Rows = calls[1].rows
               /\ \A r \in 1..Len(Rows) : ~HasOwn(Rows[r], "_id")
        /\ (Returned /\ Len(calls) = 0) =>
               /\ NoAggregations
               /\ NonEmptyHits
               /\ Len(Rows) = Len(HitsSequence)
               /\ \A r \in 1..Len(Rows) :
                      /\ HasOwn(Rows[r], "_id")
                      /\ OwnValue(Rows[r], "_id") = OwnValue(HitsSequence[r], "_id")

C9_Witness ==
    /\ Done
    /\ NonEmptyAggregations /\ IsKey(ChosenKey)
    /\ NonEmptyHits
    /\ TermsShaped(calls[1].agg)
    /\ result = <<"return", Arr(<<>>)>>

---------------------------------------------------------------------------
(* C10: with no aggregationName option esToTable converts the first key of  *)
(* the aggregations mapping, and with an option that is a key of the        *)
(* mapping it converts that one; only that aggregation is walked. The walk  *)
(* starts with topLevelAggregationName = the chosen name and                *)
(* filterColumnName = the filterColumnName option if given, else the chosen *)
(* name.                                                                    *)

C10_ChosenAggregation ==
    (Done /\ NonEmptyAggregations /\ IsKey(ChosenKey)) =>
        /\ Len(calls) > 0
        /\ calls[1].agg = OwnValue(OwnValue(esOutput, "aggregations"), ChosenKey)
        /\ calls[1].path = <<>>
        /\ \A n \in 2..Len(calls) : calls[n].name # Undef
        /\ result = <<"return", Arr(calls[1].rows)>>
        /\ HasOwn(calls[1].opts, "topLevelAggregationName")
        /\ OwnValue(calls[1].opts, "topLevelAggregationName") = Str(ChosenKey)
        /\ HasOwn(calls[1].opts, "filterColumnName")
        /\ OwnValue(calls[1].opts, "filterColumnName") =
               (IF Given("filterColumnName") THEN OwnValue(options, "filterColumnName")
                ELSE Str(ChosenKey))
        /\ ~HasOwn(calls[1].opts, "currentAggregationName")

C10_Witness ==
    /\ Done /\ NonEmptyAggregations /\ ~Given("aggregationName")
    /\ Len(AggregationKeys) = 2
    /\ AggregationKeys[1] = "y"
    /\ OwnValue(OwnValue(esOutput, "aggregations"), "x")
           # OwnValue(OwnValue(esOutput, "aggregations"), "y")
    /\ Returned /\ Len(Rows) = 2
    /\ HasOwn(Rows[1], "y")

---------------------------------------------------------------------------
(* What the claims on hits mode speak of *)

\* The call converts the hits: no aggregations to walk, a non-empty hit sequence.
HitsMode == Done /\ NoAggregations /\ NonEmptyHits

\* The source mapping of a hit, empty when the hit has none.
HitSource(hit) ==
    IF HasOwn(hit, "_source") /\ IsObject(OwnValue(hit, "_source"))
    THEN OwnValue(hit, "_source") ELSE Obj(<<>>)

\* names followed by the keys among more that it does not hold yet.
RECURSIVE AddUnseen(_, _, _)
AddUnseen(names, more, i) ==
    IF i > Len(more) THEN names
    ELSE AddUnseen(IF \E j \in 1..Len(names) : names[j] = more[i] THEN names
                   ELSE names \o <<more[i]>>,
                   more, i + 1)

\* "_id" followed by every key of any hit's source, in first-seen order.
RECURSIVE FirstSeen(_, _, _)
FirstSeen(names, hits, i) ==
    IF i > Len(hits) THEN names
    ELSE FirstSeen(AddUnseen(names, Keys(HitSource(hits[i])), 1), hits, i + 1)

HitColumns == FirstSeen(<<"_id">>, HitsSequence, 1)

\* The cell of a field: empty when absent, the JSON text of an object or an
\* array, the value itself otherwise.
FieldCell(source, field) ==
    IF ~HasOwn(source, field) THEN Str("")
    ELSE IF OwnValue(source, field)[1] \in {"object", "array"}
    THEN Str(JSONstringify(OwnValue(source, field)))
    ELSE OwnValue(source, field)

---------------------------------------------------------------------------
(* C11: in hits mode the column list is "_id" followed by every key that    *)
(* occurs in any hit's _source, in first-seen order scanning the hits in    *)
(* order; for every hit and every column other than _id the cell is the     *)
(* empty string when the hit's source lacks the field, the value unchanged  *)
(* when it is a scalar (null included), and the JSON text of the value when *)
(* it is an object or an array.                                             *)

C11_HitsCells ==
    HitsMode =>
        /\ Returned
        /\ Len(Rows) = Len(HitsSequence)
        /\ \A r \in 1..Len(Rows) :
               /\ Keys(Rows[r]) = HitColumns
               /\ \A c \in 2..Len(HitColumns) :
                      /\ HasOwn(Rows[r], HitColumns[c])
                      /\ OwnValue(Rows[r], HitColumns[c])
                             = FieldCell(HitSource(HitsSequence[r]), HitColumns[c])

---------------------------------------------------------------------------
(* C12: in hits mode the table has exactly one row per hit, in hit order,   *)
(* and every row has the same columns in the same order: _id leading, then  *)
(* the source keys in first-seen order.                                     *)

C12_HitsShape ==
    HitsMode =>
        /\ Returned
        /\ Len(Rows) = Len(HitsSequence)
        /\ \A r \in 1..Len(Rows) :
               /\ HasOwn(Rows[r], "_id")
               /\ OwnValue(Rows[r], "_id") = OwnValue(HitsSequence[r], "_id")
               /\ Keys(Rows[r]) = Keys(Rows[1])
               /\ Keys(Rows[r])[1] = "_id"
               /\ Keys(Rows[r]) = HitColumns

---------------------------------------------------------------------------
(* What the claims on the CSV text speak of *)

CsvDone == pc = "csvdone"

TableRows == table[2]

\* The columns of the output: the keys of the first row.
Header == Keys(TableRows[1])

\* The configured delimiter: the option when given, else the comma.
Delimiter ==
    IF HasOwn(csvOptions, "delimiter") /\ OwnValue(csvOptions, "delimiter") # Str("")
    THEN OwnValue(csvOptions, "delimiter")[2] ELSE ","

\* The header record is written unless includeHeaders is false.
WithHeader ==
    ~(HasOwn(csvOptions, "includeHeaders") /\ OwnValue(csvOptions, "includeHeaders") = Bool(FALSE))

\* Every row has the columns of the first row, each cell a string or a number.
PlainTable ==
    \A r \in 1..Len(TableRows) :
        /\ Keys(TableRows[r]) = Header
        /\ \A c \in 1..Len(Header) : OwnValue(TableRows[r], Header[c])[1] \in {"string", "number"}

\* The text of a string or number cell.
CellText(cell) == IF cell[1] = "number" THEN ToString(cell[2]) ELSE cell[2]

Contains(text, c) == \E i \in 1..Len(text) : SubSeq(text, i, i) = c

\* text with every double quote doubled
RECURSIVE Doubled(_)
Doubled(text) ==
    IF text = "" THEN ""
    ELSE (IF SubSeq(text, 1, 1) = "\"" THEN "\"\"" ELSE SubSeq(text, 1, 1))
         \o Doubled(SubSeq(text, 2, Len(text)))

\* The field of a cell text: quoted if and only if the text holds the
\* delimiter, a newline or a double quote.
QuotedIfNeeded(text, delimiter) ==
    IF Contains(text, delimiter) \/ Contains(text, "\n") \/ Contains(text, "\"")
    THEN "\"" \o Doubled(text) \o "\""
    ELSE text

\* fields[i], ... joined by the delimiter and ended by a newline
RECURSIVE Record(_, _, _)
Record(fields, delimiter, i) ==
    IF i > Len(fields) THEN "\n"
    ELSE fields[i] \o (IF i < Len(fields) THEN delimiter ELSE "") \o Record(fields, delimiter, i + 1)

RECURSIVE Records(_, _)
Records(lines, i) == IF i > Len(lines) THEN "" ELSE lines[i] \o Records(lines, i + 1)

\* The text of a table whose cells cellOf(r, c) are quoted when needed.
QuotedText(cellOf(_, _)) ==
    (IF WithHeader
     THEN Record([c \in 1..Len(Header) |-> QuotedIfNeeded(Header[c], Delimiter)], Delimiter, 1)
     ELSE "")
    \o Records([r \in 1..Len(TableRows) |->
                   Record([c \in 1..Len(Header) |-> QuotedIfNeeded(cellOf(r, c), Delimiter)],
                          Delimiter, 1)], 1)

---------------------------------------------------------------------------
(* C13: tableToCSV wraps a cell in double quotes, doubling every double     *)
(* quote inside it, if and only if the text of the cell holds the           *)
(* configured delimiter, a newline or a double quote, whatever the          *)
(* delimiter option is. Stated on the tables whose rows all have the        *)
(* columns of the first row with string or number cells: the text is the    *)
(* header and the rows with exactly those cells quoted.                     *)

C13_QuotedIffNeeded ==
    (CsvDone /\ Len(TableRows) > 0 /\ PlainTable) =>
        csv = QuotedText(LAMBDA r, c : CellText(OwnValue(TableRows[r], Header[c])))

---------------------------------------------------------------------------
(* A CSV parser after RFC 4180, records ended by a newline: the records of  *)
(* a text, each the sequence of its field texts.                            *)

CharAt(text, i) == SubSeq(text, i, i)

\* The first position from i on that holds the delimiter or a newline, the
\* position after the text when there is none.
NextSeparator(text, delimiter, i) ==
    LET IsSeparator(k) == k > Len(text) \/ CharAt(text, k) \in {delimiter, "\n"}
    IN  CHOOSE k \in i..(Len(text) + 1) :
            IsSeparator(k) /\ \A j \in i..(k - 1) : ~IsSeparator(j)

\* The position of the double quote that closes the quoted field opened at
\* i: the first one after an even number of double quotes that no double
\* quote follows; the position after the text when the field is not closed.
ClosingQuote(text, i) ==
    LET Quotes(j) == Cardinality({k \in (i + 1)..(j - 1) : CharAt(text, k) = "\""})
        Closes(j) == \/ j > Len(text)
                     \/ /\ CharAt(text, j) = "\""
                        /\ Quotes(j) % 2 = 0
                        /\ (j = Len(text) \/ CharAt(text, j + 1) # "\"")
    IN  CHOOSE j \in (i + 1)..(Len(text) + 1) :
            Closes(j) /\ \A k \in (i + 1)..(j - 1) : ~Closes(k)

\* text with every pair of double quotes replaced by one
RECURSIVE Undoubled(_)
Undoubled(text) ==
    IF text = "" THEN ""
    ELSE IF Len(text) >= 2 /\ SubSeq(text, 1, 2) = "\"\""
    THEN "\"" \o Undoubled(SubSeq(text, 3, Len(text)))
    ELSE SubSeq(text, 1, 1) \o Undoubled(SubSeq(text, 2, Len(text)))

\* The field that starts at i: its text and the position of the separator
\* that ends it.
FieldAt(text, delimiter, i) ==
    IF i <= Len(text) /\ CharAt(text, i) = "\""
    THEN LET close == ClosingQuote(text, i)
             next == NextSeparator(text, delimiter, close + 1)
         IN  [content |-> Undoubled(SubSeq(text, i + 1, close - 1))
                              \o SubSeq(text, close + 1, next - 1),
              next |-> next]
    ELSE LET next == NextSeparator(text, delimiter, i)
         IN  [content |-> SubSeq(text, i, next - 1), next |-> next]

\* The records of the text from the field at i on, record holding the
\* fields of the current record read so far.
RECURSIVE Parse(_, _, _, _, _)
Parse(text, delimiter, i, record, records) ==
    LET f == FieldAt(text, delimiter, i)
        rec == Append(record, f.content)
    IN  IF f.next >= Len(text) /\ ~(f.next = Len(text) /\ CharAt(text, f.next) = delimiter)
        THEN Append(records, rec)
        ELSE IF CharAt(text, f.next) = delimiter
        THEN Parse(text, delimiter, f.next + 1, rec, records)
        ELSE Parse(text, delimiter, f.next + 1, <<>>, Append(records, rec))

ParseCSV(text, delimiter) ==
    IF text = "" THEN <<>> ELSE Parse(text, delimiter, 1, <<>>, <<>>)

\* How many records precede the record of the first row.
HeaderRecords == IF WithHeader THEN 1 ELSE 0

---------------------------------------------------------------------------
(* C14: CSV round trip. For a table whose rows all have the columns of the  *)
(* first row, at least one, with string or number cells, the record of      *)
(* every row, decoded by an RFC 4180 parser with the same delimiter, has as *)
(* many fields as the header and its field texts are the texts of the       *)
(* cells, also for cells holding the delimiter, double quotes or newlines.  *)

C14_RoundTrip ==
    (CsvDone /\ Len(TableRows) > 0 /\ PlainTable /\ Len(Header) > 0) =>
        LET decoded == ParseCSV(csv, Delimiter) IN
        /\ Len(decoded) = HeaderRecords + Len(TableRows)
        /\ WithHeader => decoded[1] = Header
        /\ \A r \in 1..Len(TableRows) :
               decoded[HeaderRecords + r] =
                   [c \in 1..Len(Header) |-> CellText(OwnValue(TableRows[r], Header[c]))]

---------------------------------------------------------------------------
(* C15: tableToCSV takes its columns from the first row only. Every record  *)
(* has exactly one field per key of the first row, in that order; a column  *)
(* only a later row has is dropped, and a column of the first row that a    *)
(* later row lacks is an empty field. Stated with the comma as delimiter:   *)
(* the text is the header and, per row, the cells under the first row's     *)
(* keys, empty where the row has no such cell.                              *)

\* The text of the cell of a row under a column: empty when the row has no
\* such cell or the cell is null.
OwnCellText(row, column) ==
    IF HasOwn(row, column) /\ OwnValue(row, column) \notin {Null, Undef}
    THEN String(OwnValue(row, column)) ELSE ""

C15_FirstRowColumns ==
    (CsvDone /\ Len(TableRows) > 0 /\ Delimiter = ",") =>
        csv = QuotedText(LAMBDA r, c : OwnCellText(TableRows[r], Header[c]))

---------------------------------------------------------------------------
(* C16: tableToCSV never fails on a sequence of rows. An empty table gives  *)
(* the empty text; a non-empty table gives one header record, none when     *)
(* includeHeaders is false, then one record per row in table order, every   *)
(* record ended by a newline, the last included; null cells and absent      *)
(* cells are empty fields.                                                  *)

C16_RecordsAndEmptyFields ==
    CsvDone =>
        /\ Len(TableRows) = 0 => csv = ""
        /\ Len(TableRows) > 0 =>
               LET decoded == ParseCSV(csv, Delimiter) IN
               /\ SubSeq(csv, Len(csv), Len(csv)) = "\n"
               /\ Len(decoded) = HeaderRecords + Len(TableRows)
               /\ Delimiter = "," =>
                      \A r \in 1..Len(TableRows) : \A c \in 1..Len(Header) :
                          /\ Len(decoded[HeaderRecords + r]) >= c
                          /\ (~HasOwn(TableRows[r], Header[c])
                               \/ OwnValue(TableRows[r], Header[c]) = Null)
                                 => decoded[HeaderRecords + r][c] = ""

---------------------------------------------------------------------------
(* C17: determinism. Two runs of esToTable on the same response and options *)
(* return identical row sequences (same rows, same order, same column order *)
(* within each row), and two runs of tableToCSV on those rows, or on one    *)
(* table, return identical text.                                            *)

---------------------------------------------------------------------------
(* C18: purity. A call of esToTable or tableToCSV leaves the response with  *)
(* all its buckets, the options and the table handed to it unchanged, and   *)
(* keeps no state: in any order of calls each call returns what it returns  *)
(* when it is the only call made.                                           *)

---------------------------------------------------------------------------
(* What the claims on the row of a leaf bucket speak of *)

\* A property of a bucket that is a metric: a name outside the reserved
\* set, the value an object without a buckets property.
IsMetricProperty(p) ==
    /\ p[1] \notin {"key", "key_as_string", "doc_count", "doc_count_error_upper_bound",
                    "sum_other_doc_count"}
    /\ p[2][1] = "object"
    /\ ~HasOwn(p[2], "buckets")

\* The names of the metrics of a bucket that carry a doc_count or a value.
MetricNames(bucket) ==
    {Props(bucket)[i][1] : i \in {j \in 1..Len(Props(bucket)) :
        /\ IsMetricProperty(Props(bucket)[j])
        /\ (HasOwn(Props(bucket)[j][2], "doc_count") \/ HasOwn(Props(bucket)[j][2], "value"))}}

\* The leaf iterations of an invocation: the bucket holds no aggregation.
LeafIterations(inv) ==
    {i \in 1..Len(inv.iterations) : ~HoldsAggregation(inv.iterations[i].bucket)}

---------------------------------------------------------------------------
(* C19: for every leaf bucket and every property of it outside the reserved *)
(* set whose value is an object without a buckets property, the row has a   *)
(* column named by the property, holding the object's doc_count if it has   *)
(* one, else its value if it has one; an object with neither adds no        *)
(* column.                                                                  *)

C19_Iteration(it) ==
    /\ Len(it.rows) = 1
    /\ \A i \in 1..Len(Props(it.bucket)) :
           LET p == Props(it.bucket)[i] IN
           IsMetricProperty(p) =>
               IF HasOwn(p[2], "doc_count")
               THEN HasOwn(it.rows[1], p[1])
                    /\ OwnValue(it.rows[1], p[1]) = OwnValue(p[2], "doc_count")
               ELSE IF HasOwn(p[2], "value")
               THEN HasOwn(it.rows[1], p[1])
                    /\ OwnValue(it.rows[1], p[1]) = OwnValue(p[2], "value")
               ELSE p[1] \notin PathColumnNames(it.newPath) => ~HasOwn(it.rows[1], p[1])

C19_MetricColumns ==
    Done => \A n \in 1..Len(calls) : \A i \in LeafIterations(calls[n]) :
                C19_Iteration(calls[n].iterations[i])

\* A leaf bucket with a metric that has both doc_count and value.
C19_Witness ==
    /\ Done
    /\ \E n \in 1..Len(calls) : \E i \in LeafIterations(calls[n]) :
           LET b == calls[n].iterations[i].bucket IN
           /\ HasOwn(b, "m") /\ HasOwn(OwnValue(b, "m"), "doc_count")
           /\ HasOwn(OwnValue(b, "m"), "value")
           /\ OwnValue(OwnValue(b, "m"), "value") # OwnValue(OwnValue(b, "m"), "doc_count")
           /\ OwnValue(calls[n].iterations[i].rows[1], "m") = OwnValue(OwnValue(b, "m"), "doc_count")

---------------------------------------------------------------------------
(* C20: the row of a terminal bucket with path P holds exactly one column   *)
(* per path entry of P, a column "key" with the bucket's own key            *)
(* (key_as_string preferred) if and only if that key is defined and differs *)
(* from the value of the last entry of P, a column "doc_count" if and only  *)
(* if the bucket has a doc_count, and one column per metric found. A leaf   *)
(* bucket of a terms node, whose key is the last path value, gets no "key"  *)
(* column. Stated for paths with no column named key or doc_count.          *)

HasOwnKey(bucket, path) ==
    /\ BucketKey(bucket) # Undef
    /\ (Len(path) = 0 \/ path[Len(path)].value # BucketKey(bucket))

C20_Row(row, bucket, path) ==
    {"key", "doc_count"} \cap PathColumnNames(path) = {} =>
        /\ {Keys(row)[c] : c \in 1..Len(Keys(row))} =
               PathColumnNames(path)
               \cup (IF HasOwnKey(bucket, path) THEN {"key"} ELSE {})
               \cup (IF HasOwn(bucket, "doc_count") THEN {"doc_count"} ELSE {})
               \cup MetricNames(bucket)
        /\ HasOwnKey(bucket, path) => OwnValue(row, "key") = BucketKey(bucket)
        /\ HasOwn(bucket, "doc_count") => OwnValue(row, "doc_count") = OwnValue(bucket, "doc_count")

---------------------------------------------------------------------------
(* C21: when two path entries carry the same column name, a nested          *)
(* aggregation being named like one of its ancestors, the row holds the     *)
(* value of the later, deeper entry under that column and not the value of  *)
(* the earlier one; the path keeps both entries. Stated for the columns     *)
(* that no key, doc_count or metric column of the row shares.               *)

\* Entry j is the last entry of the path with its column, and not the first.
IsLaterEntry(path, j) ==
    /\ \E i \in 1..(j - 1) : path[i].column = path[j].column
    /\ \A k \in (j + 1)..Len(path) : path[k].column # path[j].column

C21_Row(row, bucket, path) ==
    \A j \in 1..Len(path) :
        (IsLaterEntry(path, j)
         /\ path[j].column[2] \notin {"key", "doc_count"} \cup MetricNames(bucket)) =>
            /\ HasOwn(row, path[j].column[2])
            /\ OwnValue(row, path[j].column[2]) = path[j].value
            /\ \A i \in 1..(j - 1) :
                   (path[i].column = path[j].column /\ path[i].value # path[j].value)
                       => OwnValue(row, path[j].column[2]) # path[i].value

\* The path an iteration extends keeps every entry it had, and an entry is
\* appended also when its column is in the path already.
C21_PathKept(inv, it) ==
    /\ SubSeq(it.newPath, 1, Len(inv.path)) = inv.path
    /\ (FiltersShaped(inv.agg) \/ BucketKey(it.bucket) # Undef)
           => Len(it.newPath) = Len(inv.path) + 1

C21_LaterEntryWins ==
    Done => \A n \in 1..Len(calls) :
        /\ \A i \in 1..Len(calls[n].iterations) :
               C21_PathKept(calls[n], calls[n].iterations[i])
        /\ \A i \in LeafIterations(calls[n]) :
               LET it == calls[n].iterations[i] IN
               Len(it.rows) = 1 /\ C21_Row(it.rows[1], it.bucket, it.newPath)
        /\ (TermsShaped(calls[n].agg) /\ OtherCount(calls[n].agg) > 0) =>
               /\ Len(calls[n].other) = 1
               /\ C21_Row(calls[n].other[1], Obj(<<>>),
                          calls[n].path \o <<[column |-> calls[n].column, value |-> Str("_other_")]>>)

\* A leaf row below two levels that share their column name, with different
\* values at the two levels.
C21_Witness ==
    /\ Done
    /\ \E n \in 1..Len(calls) : \E i \in LeafIterations(calls[n]) :
           LET it == calls[n].iterations[i] IN
           \E j \in 1..Len(it.newPath) :
               /\ IsLaterEntry(it.newPath, j)
               /\ \E k \in 1..(j - 1) :
                      /\ it.newPath[k].column = it.newPath[j].column
                      /\ it.newPath[k].value # it.newPath[j].value
               /\ OwnValue(it.rows[1], it.newPath[j].column[2]) = it.newPath[j].value

---------------------------------------------------------------------------
(* C22: a property of a bucket is walked as a nested aggregation if and     *)
(* only if its name is outside the reserved set and its value is an object  *)
(* with a buckets property holding a sequence or a mapping. A bucket with   *)
(* nested aggregations yields the concatenation, in property order, of the  *)
(* rows of each of them walked with currentAggregationName set to its       *)
(* property key and the bucket's extended path; a bucket with none yields   *)
(* exactly one row.                                                         *)

\* A property holding an object whose buckets is a sequence or a mapping.
HoldsBuckets(p) ==
    /\ p[1] \notin {"key", "key_as_string", "doc_count", "doc_count_error_upper_bound",
                    "sum_other_doc_count"}
    /\ p[2][1] = "object"
    /\ HasOwn(p[2], "buckets")
    /\ OwnValue(p[2], "buckets")[1] \in {"array", "object"}

BucketAggregations(bucket) == SelectSeq(Props(bucket), HoldsBuckets)

\* The walk made one invocation for this property of the bucket of it.
WalkedAs(it, p, rows) ==
    \E m \in 1..Len(calls) :
        /\ calls[m].name = Str(p[1])
        /\ calls[m].agg = p[2]
        /\ Get(calls[m].opts, "currentAggregationName") = Str(p[1])
        /\ calls[m].path = it.newPath
        /\ calls[m].rows = rows

C22_Iteration(it) ==
    LET aggs == BucketAggregations(it.bucket) IN
    /\ Len(it.nested) = Len(aggs)
    /\ \A j \in 1..Len(aggs) :
           /\ it.nested[j].name = aggs[j][1]
           /\ WalkedAs(it, aggs[j], it.nested[j].rows)
    /\ IF Len(aggs) > 0
       THEN it.rows = Flatten([j \in 1..Len(it.nested) |-> it.nested[j].rows], 1)
       ELSE Len(it.rows) = 1

C22_NestedDiscovery ==
    Done => \A n \in 1..Len(calls) : \A i \in 1..Len(calls[n].iterations) :
                C22_Iteration(calls[n].iterations[i])

---------------------------------------------------------------------------
(* C23: a node that holds neither a bucket sequence nor a bucket mapping is *)
(* never an error: walking it returns no rows. esToTable on a response      *)
(* whose chosen top-level aggregation is a metric, an object without        *)
(* buckets, returns the empty row sequence.                                 *)

\* The chosen top-level aggregation is an object without a buckets property.
ChosenIsMetric ==
    /\ NonEmptyAggregations
    /\ IsKey(ChosenKey)
    /\ IsObject(OwnValue(OwnValue(esOutput, "aggregations"), ChosenKey))
    /\ ~HasOwn(OwnValue(OwnValue(esOutput, "aggregations"), ChosenKey), "buckets")

C23_NoRowsNoError ==
    Done =>
        /\ \A n \in 1..Len(calls) :
               (~TermsShaped(calls[n].agg) /\ ~FiltersShaped(calls[n].agg)) =>
                   /\ Returned
                   /\ calls[n].rows = <<>>
                   /\ calls[n].iterations = <<>>
                   /\ calls[n].other = <<>>
        /\ ChosenIsMetric => (Len(calls) = 1 /\ result = Return(<<>>))

\* A metric chosen at the top level was walked and gave the empty table.
C23_Witness ==
    /\ Done
    /\ ChosenIsMetric
    /\ Len(calls) = 1
    /\ calls[1].kind = "none"
    /\ result = Return(<<>>)

\* A nested node of neither shape gave no rows beside a sibling that gave some.
C23_NestedCase ==
    /\ Done
    /\ Returned
    /\ Len(Rows) > 0
    /\ \E n \in 2..Len(calls) :
           /\ ~TermsShaped(calls[n].agg) /\ ~FiltersShaped(calls[n].agg)
           /\ calls[n].rows = <<>>

---------------------------------------------------------------------------
(* C24: for a bucket of a terms aggregation that has neither key nor        *)
(* key_as_string the walker appends nothing to the path: the bucket's leaf  *)
(* row, or its nested aggregations, get the path the aggregation itself     *)
(* received, so the rows carry no column for this level, and the leaf row   *)
(* has no "key" column.                                                     *)

Keyless(bucket) == ~HasOwn(bucket, "key") /\ ~HasOwn(bucket, "key_as_string")

\* The invocations made for the nested aggregations of the bucket of it.
NestedCalls(it) ==
    {m \in 1..Len(calls) :
        \E j \in 1..Len(it.nested) :
            /\ calls[m].name = Str(it.nested[j].name)
            /\ calls[m].agg = OwnValue(it.bucket, it.nested[j].name)}

C24_Iteration(inv, it) ==
    /\ it.newPath = inv.path
    /\ it.leaf =>
           /\ Len(it.rows) = 1
           /\ {Keys(it.rows[1])[k] : k \in 1..Len(Keys(it.rows[1]))}
                  = PathColumnNames(inv.path)
                    \cup (IF HasOwn(it.bucket, "doc_count") THEN {"doc_count"} ELSE {})
                    \cup MetricNames(it.bucket)
           /\ ("key" \notin PathColumnNames(inv.path) \cup MetricNames(it.bucket))
                  => ~HasOwn(it.rows[1], "key")
    /\ \A j \in 1..Len(it.nested) :
           \E m \in NestedCalls(it) :
               /\ calls[m].path = inv.path
               /\ calls[m].rows = it.nested[j].rows

C24_KeylessTermsBucket ==
    Done => \A n \in 1..Len(calls) :
        calls[n].kind = "terms" =>
            \A i \in 1..Len(calls[n].iterations) :
                Keyless(calls[n].iterations[i].bucket)
                    => C24_Iteration(calls[n], calls[n].iterations[i])

\* A bucket without key beside a bucket with one, in the top-level terms
\* aggregation: the rows of the first lack the column the second's row has.
C24_Witness ==
    /\ Done
    /\ Len(calls) > 0
    /\ calls[1].kind = "terms"
    /\ \E i, k \in 1..Len(calls[1].iterations) :
           LET it == calls[1].iterations[i]
               keyed == calls[1].iterations[k] IN
           /\ Keyless(it.bucket)
           /\ Len(it.rows) > 0
           /\ \A r \in 1..Len(it.rows) : ~HasOwn(it.rows[r], calls[1].column[2])
           /\ \A r \in 1..Len(it.rows) : ~HasOwn(it.rows[r], "key")
           /\ ~Keyless(keyed.bucket)
           /\ Len(keyed.rows) = 1
           /\ HasOwn(keyed.rows[1], calls[1].column[2])

\* The same for a bucket without key that holds a nested aggregation.
C24_NestedCase ==
    /\ Done
    /\ \E n \in 1..Len(calls) : \E i \in 1..Len(calls[n].iterations) :
           LET it == calls[n].iterations[i] IN
           /\ calls[n].kind = "terms"
           /\ Keyless(it.bucket)
           /\ ~it.leaf
           /\ Len(it.rows) > 0
           /\ \A r \in 1..Len(it.rows) : ~HasOwn(it.rows[r], calls[n].column[2])

---------------------------------------------------------------------------
(* C25: every bucket is represented in the output: a bucket that has nested *)
(* aggregations contributes at least one row, and its own doc_count and     *)
(* the values of the metrics beside its nested aggregations appear in the   *)
(* rows derived from it.                                                    *)

\* value is held by some column of some row.
AppearsIn(rows, value) ==
    \E r \in 1..Len(rows) : \E k \in 1..Len(Props(rows[r])) : Props(rows[r])[k][2] = value

\* The value a metric object contributes: its doc_count, else its value.
OwnMetricValue(obj) ==
    IF HasOwn(obj, "doc_count") THEN OwnValue(obj, "doc_count") ELSE OwnValue(obj, "value")

IsPrefix(p, q) == Len(p) <= Len(q) /\ SubSeq(q, 1, Len(p)) = p

\* row was made below the bucket of it: from a leaf bucket, or as a remainder.
MadeBelow(it, row) ==
    \E m \in 1..Len(calls) :
        /\ IsPrefix(it.newPath, calls[m].path)
        /\ \/ calls[m].other = <<row>>
           \/ \E k \in 1..Len(calls[m].iterations) :
                  LET leaf == calls[m].iterations[k] IN
                  /\ leaf.leaf
                  /\ leaf.rows = <<row>>
                  /\ row = createRowFromBucket(leaf.bucket, leaf.newPath)
                  /\ \A c \in MetricNames(it.bucket) \
                              (MetricNames(leaf.bucket) \cup PathColumnNames(leaf.newPath)) :
                         ~HasOwn(row, c)

C25_Iteration(it) ==
    /\ it.rows = Flatten([j \in 1..Len(it.nested) |-> it.nested[j].rows], 1)
    /\ \A r \in 1..Len(it.rows) : MadeBelow(it, it.rows[r])

C25_NoRowCase ==
    /\ Done
    /\ \E n \in 1..Len(calls) : \E i \in 1..Len(calls[n].iterations) :
           /\ ~calls[n].iterations[i].leaf
           /\ calls[n].iterations[i].rows = <<>>

---------------------------------------------------------------------------
(* C26: path isolation. The path columns of every emitted row come only     *)
(* from the row's own ancestors, in root-to-leaf order: the path of an      *)
(* iteration is the path its aggregation received plus one entry for its    *)
(* own bucket (none for a terms bucket without key, C24), every nested      *)
(* aggregation of a bucket receives exactly that path whatever its siblings *)
(* added below, and the remainder row is built on the path the aggregation  *)
(* received, not on the path of any of its buckets.                         *)

\* The value of the last entry of path with this column.
LastValue(path, c) ==
    path[CHOOSE j \in 1..Len(path) :
             /\ path[j].column = Str(c)
             /\ \A k \in (j + 1)..Len(path) : path[k].column # Str(c)].value

\* row holds the columns of path, and no column from anywhere but path and bucket.
BuiltOn(row, bucket, path) ==
    /\ \A c \in PathColumnNames(path) \ ({"key", "doc_count"} \cup MetricNames(bucket)) :
           HasOwn(row, c) /\ OwnValue(row, c) = LastValue(path, c)
    /\ \A k \in 1..Len(Keys(row)) :
           Keys(row)[k] \in PathColumnNames(path) \cup {"key", "doc_count"} \cup MetricNames(bucket)

\* The entry an iteration adds for its own bucket.
OwnEntry(inv, it, i) ==
    IF inv.kind = "filters"
    THEN <<[column |-> inv.column, value |-> Str(Keys(OwnValue(inv.agg, "buckets"))[i])]>>
    ELSE IF BucketKey(it.bucket) # Undef
    THEN <<[column |-> inv.column, value |-> BucketKey(it.bucket)]>>
    ELSE <<>>

C26_Node(n) ==
    LET inv == calls[n] IN
    /\ n = 1 => inv.path = <<>>
    /\ \A i \in 1..Len(inv.iterations) :
           LET it == inv.iterations[i] IN
           /\ it.newPath = inv.path \o OwnEntry(inv, it, i)
           /\ it.leaf => (Len(it.rows) = 1 /\ BuiltOn(it.rows[1], it.bucket, it.newPath))
           /\ ~it.leaf =>
                  /\ it.rows = Flatten([j \in 1..Len(it.nested) |-> it.nested[j].rows], 1)
                  /\ \A j \in 1..Len(it.nested) :
                         \E m \in (n + 1)..Len(calls) :
                             /\ calls[m].name = Str(it.nested[j].name)
                             /\ calls[m].agg = OwnValue(it.bucket, it.nested[j].name)
                             /\ calls[m].path = it.newPath
                             /\ calls[m].rows = it.nested[j].rows
    /\ inv.rows = Concat(Flatten([i \in 1..Len(inv.iterations) |-> inv.iterations[i].rows], 1),
                         inv.other)
    /\ \A r \in 1..Len(inv.other) :
           BuiltOn(inv.other[r], Obj(<<>>),
                   inv.path \o <<[column |-> inv.column, value |-> Str("_other_")]>>)
    /\ n > 1 =>
           \E q \in 1..(n - 1) : \E i \in 1..Len(calls[q].iterations) :
               /\ inv.path = calls[q].iterations[i].newPath
               /\ HasOwn(calls[q].iterations[i].bucket, inv.name[2])
               /\ inv.agg = OwnValue(calls[q].iterations[i].bucket, inv.name[2])

C26_PathIsolation ==
    Done => \A n \in 1..Len(calls) : C26_Node(n)

\* A bucket with two nested aggregations that both give rows: the rows of
\* the second hold no column of the first, and the remainder row of the
\* top-level aggregation holds its own column and doc_count only.
C26_Witness ==
    /\ Done
    /\ Len(calls) > 0
    /\ Len(calls[1].other) = 1
    /\ \E i \in 1..Len(calls[1].iterations) :
           LET it == calls[1].iterations[i] IN
           /\ Len(it.nested) = 2
           /\ it.nested[1].name # calls[1].column[2]
           /\ Len(it.nested[1].rows) > 0
           /\ Len(it.nested[2].rows) > 0
           /\ \A r \in 1..Len(it.nested[1].rows) : HasOwn(it.nested[1].rows[r], it.nested[1].name)
           /\ \A r \in 1..Len(it.nested[2].rows) : ~HasOwn(it.nested[2].rows[r], it.nested[1].name)
           /\ ~HasOwn(calls[1].other[1], it.nested[1].name)
           /\ Keys(calls[1].other[1]) = <<calls[1].column[2], "doc_count">>

---------------------------------------------------------------------------
(* C27: esToTable ends after one pass in which each reachable bucket is     *)
(* visited once, and the number of rows returned is the number of reachable *)
(* buckets with no nested aggregation plus the number of reachable terms    *)
(* aggregations with sum_other_doc_count > 0. A bucket is reachable when it *)
(* is a bucket of the chosen aggregation or of a nested aggregation of a    *)
(* reachable bucket; a nested aggregation is a property holding an object   *)
(* whose buckets is a sequence or a mapping.                                *)

RECURSIVE SumSeq(_, _)
SumSeq(numbers, i) == IF i > Len(numbers) THEN 0 ELSE numbers[i] + SumSeq(numbers, i + 1)

\* The buckets of a node, in order; none for a node of neither shape.
NodeBuckets(agg) ==
    IF TermsShaped(agg) THEN OwnValue(agg, "buckets")[2]
    ELSE IF FiltersShaped(agg)
    THEN [i \in 1..Len(Props(OwnValue(agg, "buckets"))) |-> Props(OwnValue(agg, "buckets"))[i][2]]
    ELSE <<>>

RECURSIVE ReachableBuckets(_)
ReachableBuckets(agg) ==
    Len(NodeBuckets(agg))
    + SumSeq([i \in 1..Len(NodeBuckets(agg)) |->
                 SumSeq([j \in 1..Len(BucketAggregations(NodeBuckets(agg)[i])) |->
                            ReachableBuckets(BucketAggregations(NodeBuckets(agg)[i])[j][2])], 1)], 1)

RECURSIVE ReachableLeaves(_)
ReachableLeaves(agg) ==
    SumSeq([i \in 1..Len(NodeBuckets(agg)) |->
               IF BucketAggregations(NodeBuckets(agg)[i]) = <<>> THEN 1
               ELSE SumSeq([j \in 1..Len(BucketAggregations(NodeBuckets(agg)[i])) |->
                               ReachableLeaves(BucketAggregations(NodeBuckets(agg)[i])[j][2])], 1)], 1)

RECURSIVE ReachableRemainders(_)
ReachableRemainders(agg) ==
    (IF TermsShaped(agg) /\ OtherCount(agg) > 0 THEN 1 ELSE 0)
    + SumSeq([i \in 1..Len(NodeBuckets(agg)) |->
                 SumSeq([j \in 1..Len(BucketAggregations(NodeBuckets(agg)[i])) |->
                            ReachableRemainders(BucketAggregations(NodeBuckets(agg)[i])[j][2])], 1)], 1)

\* The aggregation the claim calls chosen.
Chosen == OwnValue(OwnValue(esOutput, "aggregations"), ChosenKey)

\* The loop iterations the walk made, over all its invocations.
Visits == SumSeq([n \in 1..Len(calls) |-> Len(calls[n].iterations)], 1)

C27_RowCount ==
    (Done /\ NonEmptyAggregations /\ IsKey(ChosenKey)) =>
        /\ Returned
        /\ Visits = ReachableBuckets(Chosen)
        /\ Len(Rows) = ReachableLeaves(Chosen) + ReachableRemainders(Chosen)

---------------------------------------------------------------------------
(* C28: in hits mode the _id cell of every row is the hit's own _id: a      *)
(* _source field that is itself named "_id" never overrides it and never    *)
(* adds a second _id column.                                                *)

\* How many columns of the row are named name.
ColumnCount(row, name) == Cardinality({k \in 1..Len(Keys(row)) : Keys(row)[k] = name})

C28_OwnId ==
    HitsMode =>
        /\ Returned
        /\ Len(Rows) = Len(HitsSequence)
        /\ \A r \in 1..Len(Rows) :
               /\ ColumnCount(Rows[r], "_id") = 1
               /\ OwnValue(Rows[r], "_id") = OwnValue(HitsSequence[r], "_id")

\* A hit whose source has an _id field different from the hit's own _id.
C28_Witness ==
    /\ HitsMode
    /\ Returned
    /\ \E r \in 1..Len(Rows) :
           /\ HasOwn(HitSource(HitsSequence[r]), "_id")
           /\ OwnValue(HitSource(HitsSequence[r]), "_id") # OwnValue(HitsSequence[r], "_id")
           /\ OwnValue(Rows[r], "_id") = OwnValue(HitsSequence[r], "_id")
           /\ ColumnCount(Rows[r], "_id") = 1

---------------------------------------------------------------------------
(* The file routes of the server: the authentication middleware,            *)
(* getUserDataDir, and the download, rename, delete and DuckDB-load routes. *)
(* A path is the text the code handles.                                     *)

\* process.env.AUTH_REQUIRED === 'true': the deployment with authentication
AUTH_REQUIRED == TRUE

\* process.env.AUTH_ALLOWED_DOMAIN, set to a short domain
AUTH_ALLOWED_DOMAIN == "d.io"

\* path.join(__dirname, 'data')
DATA_DIR == "/app/data"

\* str.startsWith(prefix)
StartsWith(str, prefix) == Len(prefix) <= Len(str) /\ SubSeq(str, 1, Len(prefix)) = prefix

\* str.includes(part)
IncludesText(str, part) ==
    \E i \in 1..(Len(str) - Len(part) + 1) : SubSeq(str, i, i + Len(part) - 1) = part

\* The first position from i on that holds sep, the position after the text
\* when there is none.
NextSep(text, sep, i) ==
    CHOOSE k \in i..(Len(text) + 1) :
        /\ k > Len(text) \/ CharAt(text, k) = sep
        /\ \A j \in i..(k - 1) : CharAt(text, j) # sep

\* text.split(sep), from position i on
RECURSIVE SplitFrom(_, _, _)
SplitFrom(text, sep, i) ==
    IF i > Len(text) + 1 THEN <<>>
    ELSE <<SubSeq(text, i, NextSep(text, sep, i) - 1)>>
         \o SplitFrom(text, sep, NextSep(text, sep, i) + 1)

UpperCaseLetters == "ABCDEFGHIJKLMNOPQRSTUVWXYZ"
LowerCaseLetters == "abcdefghijklmnopqrstuvwxyz"

\* str.toLowerCase(), from the i-th character on
RECURSIVE toLowerCase(_, _)
toLowerCase(str, i) ==
    IF i > Len(str) THEN ""
    ELSE (IF Includes(UpperCaseLetters, CharAt(str, i))
          THEN CharAt(LowerCaseLetters,
                      CHOOSE k \in 1..Len(UpperCaseLetters) :
                          CharAt(UpperCaseLetters, k) = CharAt(str, i))
          ELSE CharAt(str, i))
         \o toLowerCase(str, i + 1)

\* username.replace(/[^a-zA-Z0-9._-]/g, '_'), from the i-th character on
RECURSIVE safeUsername(_, _)
safeUsername(username, i) ==
    IF i > Len(username) THEN ""
    ELSE (IF Includes(LowerCaseLetters \o UpperCaseLetters \o "0123456789._-",
                      CharAt(username, i))
          THEN CharAt(username, i) ELSE "_")
         \o safeUsername(username, i + 1)

\* path.normalize of an absolute path: the segments left after "", "." and
\* ".." have been resolved, from the i-th segment on.
RECURSIVE ResolveSegments(_, _, _)
ResolveSegments(segments, kept, i) ==
    IF i > Len(segments) THEN kept
    ELSE ResolveSegments(
             segments,
             IF segments[i] \in {"", "."} THEN kept
             ELSE IF segments[i] = ".."
             THEN (IF kept = <<>> THEN kept ELSE SubSeq(kept, 1, Len(kept) - 1))
             ELSE Append(kept, segments[i]),
             i + 1)

\* path.join(dir, name) for an absolute dir
pathJoin(dir, name) ==
    LET joined == IF name = "" THEN dir ELSE dir \o "/" \o name
        kept == ResolveSegments(SplitFrom(joined, "/", 1), <<>>, 1)
    IN  "/" \o Join(kept, "/", 1)
        \o (IF kept # <<>> /\ CharAt(joined, Len(joined)) = "/" THEN "/" ELSE "")

\* The middleware: whether the request goes on, the status it is answered
\* with otherwise, and req.authUser ("" when not set).
domainAuthMiddleware(header) ==
    IF ~AUTH_REQUIRED THEN [next |-> TRUE, status |-> 0, authUser |-> ""]
    ELSE IF ~Truthy(header) THEN [next |-> FALSE, status |-> 401, authUser |-> ""]
    ELSE LET parts == SplitFrom(header[2], "@", 1)
             domain == IF Len(parts) >= 2 THEN parts[2] ELSE "" IN
         IF domain = "" \/ toLowerCase(domain, 1) # toLowerCase(AUTH_ALLOWED_DOMAIN, 1)
         THEN [next |-> FALSE, status |-> 403, authUser |-> ""]
         ELSE [next |-> TRUE, status |-> 0, authUser |-> header[2]]

\* The directory getUserDataDir returns; it creates it when missing.
getUserDataDir(username) ==
    IF username = "" THEN DATA_DIR
    ELSE pathJoin(DATA_DIR, safeUsername(username, 1))

\* dbPath of the DuckDBService of a user, created by init
dbPath(username) == pathJoin(getUserDataDir(username), "es2tabular.duckdb")

\* fs.existsSync(path) once getUserDataDir has run
existsSync(path, userDataDir) == path \in files \cup dirs \cup {userDataDir}

\* What a route did: the status it answered, the paths it resolved, the
\* paths it read, renamed, deleted or loaded, and the files and directories
\* it left.
Outcome(status, resolved, touched, filesLeft, dirsLeft) ==
    [status |-> status, resolved |-> resolved, touched |-> touched,
     files |-> filesLeft, dirs |-> dirsLeft]

\* GET /api/files/:filename
DownloadFile(username, filename) ==
    LET userDataDir == getUserDataDir(username)
        filepath == pathJoin(userDataDir, filename)
        dirsNow == dirs \cup {userDataDir} IN
    IF ~StartsWith(filepath, userDataDir) THEN Outcome(403, {filepath}, {}, files, dirsNow)
    ELSE IF ~existsSync(filepath, userDataDir) THEN Outcome(404, {filepath}, {}, files, dirsNow)
    ELSE Outcome(200, {filepath}, {filepath}, files, dirsNow)

\* fs.renameSync(oldPath, newPath) on one path of the disk
Renamed(path, oldPath, newPath) ==
    IF path = oldPath THEN newPath
    ELSE IF StartsWith(path, oldPath \o "/")
    THEN newPath \o SubSeq(path, Len(oldPath) + 1, Len(path))
    ELSE path

\* PUT /api/files/:filename
RenameFile(username, filename, newFilename) ==
    IF ~Truthy(newFilename) THEN Outcome(400, {}, {}, files, dirs)
    ELSE IF \/ IncludesText(newFilename[2], "/")
            \/ IncludesText(newFilename[2], "\\")
            \/ IncludesText(newFilename[2], "..")
    THEN Outcome(400, {}, {}, files, dirs)
    ELSE LET userDataDir == getUserDataDir(username)
             oldPath == pathJoin(userDataDir, filename)
             newPath == pathJoin(userDataDir, newFilename[2])
             dirsNow == dirs \cup {userDataDir} IN
         IF ~StartsWith(oldPath, userDataDir) \/ ~StartsWith(newPath, userDataDir)
         THEN Outcome(403, {oldPath, newPath}, {}, files, dirsNow)
         ELSE IF ~existsSync(oldPath, userDataDir)
         THEN Outcome(404, {oldPath, newPath}, {}, files, dirsNow)
         ELSE IF existsSync(newPath, userDataDir)
         THEN Outcome(409, {oldPath, newPath}, {}, files, dirsNow)
         ELSE Outcome(200, {oldPath, newPath}, {oldPath, newPath},
                      {Renamed(f, oldPath, newPath) : f \in files},
                      {Renamed(d, oldPath, newPath) : d \in dirsNow})

\* DELETE /api/files/:filename
DeleteFile(username, filename) ==
    LET userDataDir == getUserDataDir(username)
        filepath == pathJoin(userDataDir, filename)
        dirsNow == dirs \cup {userDataDir} IN
    IF ~StartsWith(filepath, userDataDir) THEN Outcome(403, {filepath}, {}, files, dirsNow)
    ELSE IF ~existsSync(filepath, userDataDir) THEN Outcome(404, {filepath}, {}, files, dirsNow)
    ELSE IF filepath \notin files THEN Outcome(500, {filepath}, {filepath}, files, dirsNow)
    ELSE Outcome(200, {filepath}, {filepath}, files \ {filepath}, dirsNow)

\* POST /api/duckdb/load
LoadFile(username, csvPath) ==
    IF ~Truthy(csvPath) THEN Outcome(400, {}, {}, files, dirs)
    ELSE LET userDataDir == getUserDataDir(username)
             fullPath == pathJoin(userDataDir, csvPath[2])
             dirsNow == dirs \cup {userDataDir}
             filesNow == files \cup {dbPath(username)} IN
         IF \/ StartsWith(csvPath[2], "s3://")
            \/ StartsWith(csvPath[2], "http://")
            \/ StartsWith(csvPath[2], "https://")
         THEN Outcome(200, {}, {}, filesNow, dirsNow)
         ELSE IF ~StartsWith(fullPath, userDataDir)
         THEN Outcome(403, {fullPath}, {}, filesNow, dirsNow)
         ELSE IF fullPath \notin filesNow \cup dirsNow
         THEN Outcome(404, {fullPath}, {}, filesNow, dirsNow)
         ELSE Outcome(200, {fullPath}, {fullPath}, filesNow, dirsNow)

\* The x-auth-request-preferred-username headers of the requests.
Usernames == {"a@d.io", "a_d.io@d.io", "a+d.io@d.io", "a@x.io"}

Headers == {Undef} \cup {Str(u) : u \in Usernames}

\* The :filename parameters and body paths of the requests.
Filenames == {"f.csv", "../a_d.io/f.csv", "../a_d.io_d.io/f.csv"}

NewFilenames == {Undef, Str("g.csv"), Str("../g.csv")}

CsvPaths == {Undef, Str("s3://b/f.csv")} \cup {Str(f) : f \in Filenames}

\* The users that have files already.
Onboarded == {{}, {"a@d.io", "a_d.io@d.io"}}

\* The most requests served in a row.
MaxRequests == 2

\* The state a route leaves: what it answered and the disk.
Serve(route, header, filename, newFilename, outcome) ==
    /\ served' = [number |-> served.number + 1,
                  route |-> route, header |-> header, filename |-> filename,
                  newFilename |-> newFilename, status |-> outcome.status,
                  resolved |-> outcome.resolved, touched |-> outcome.touched,
                  changed |-> outcome.files # files]
    /\ files' = outcome.files
    /\ dirs' = outcome.dirs

\* No request served yet.
NotServed ==
    [number |-> 0,
     route |-> "none", header |-> Undef, filename |-> Undef, newFilename |-> Undef,
     status |-> 0, resolved |-> {}, touched |-> {}, changed |-> FALSE]

\* A request the middleware answers itself.
Denied(auth) == Outcome(auth.status, {}, {}, files, dirs)

NoCore ==
    /\ esOutput = NoResult /\ options = NoResult /\ result = NoResult /\ calls = <<>>
    /\ table = NoResult /\ csvOptions = NoResult /\ csv = NoResult
    /\ runs = <<>> /\ alone = NoResult

InitRoutes ==
    /\ \E users \in Onboarded :
           /\ dirs = {DATA_DIR} \cup {getUserDataDir(u) : u \in users}
           /\ files = {pathJoin(getUserDataDir(u), "f.csv") : u \in users}
    /\ served = NotServed
    /\ pc = "routes"
    /\ NoCore
    /\ service = NoResult /\ tasks = NoResult /\ engine = NoResult /\ ran = NoResult

Download ==
    /\ pc = "routes"
    /\ served.number < MaxRequests
    /\ \E header \in Headers, filename \in Filenames :
           LET auth == domainAuthMiddleware(header) IN
           Serve("download", header, Str(filename), Undef,
                 IF auth.next THEN DownloadFile(auth.authUser, filename) ELSE Denied(auth))
    /\ UNCHANGED <<coreVars, duckVars>>

Rename ==
    /\ pc = "routes"
    /\ served.number < MaxRequests
    /\ \E header \in Headers, filename \in Filenames, newFilename \in NewFilenames :
           LET auth == domainAuthMiddleware(header) IN
           Serve("rename", header, Str(filename), newFilename,
                 IF auth.next THEN RenameFile(auth.authUser, filename, newFilename)
                 ELSE Denied(auth))
    /\ UNCHANGED <<coreVars, duckVars>>

Delete ==
    /\ pc = "routes"
    /\ served.number < MaxRequests
    /\ \E header \in Headers, filename \in Filenames :
           LET auth == domainAuthMiddleware(header) IN
           Serve("delete", header, Str(filename), Undef,
                 IF auth.next THEN DeleteFile(auth.authUser, filename) ELSE Denied(auth))
    /\ UNCHANGED <<coreVars, duckVars>>

Load ==
    /\ pc = "routes"
    /\ served.number < MaxRequests
    /\ \E header \in Headers, csvPath \in CsvPaths :
           LET auth == domainAuthMiddleware(header) IN
           Serve("load", header, csvPath, Undef,
                 IF auth.next THEN LoadFile(auth.authUser, csvPath) ELSE Denied(auth))
    /\ UNCHANGED <<coreVars, duckVars>>

NextRoutes == Download \/ Rename \/ Delete \/ Load

SpecRoutes == InitRoutes /\ [][NextRoutes]_vars

---------------------------------------------------------------------------
(* C29: per-tenant file isolation. For every authenticated user and every   *)
(* filename given to the download, rename, delete or DuckDB-load route, the *)
(* path the server reads, renames, deletes or loads lies inside the user's  *)
(* own data directory; a request whose resolved path falls outside it is    *)
(* answered 403 and touches no file; and two distinct usernames never       *)
(* resolve to the same data directory.                                      *)

\* The usernames the middleware lets through.
Tenants == {u \in Usernames : domainAuthMiddleware(Str(u)).next}

\* path is the directory or lies below it.
Inside(path, dir) == path = dir \/ StartsWith(path, dir \o "/")

Authenticated == served.route # "none" /\ domainAuthMiddleware(served.header).next

OwnDir == getUserDataDir(served.header[2])

C29_TouchedInside ==
    Authenticated => \A p \in served.touched : Inside(p, OwnDir)

C29_OutsideDenied ==
    Authenticated =>
        ((\E p \in served.resolved : ~Inside(p, OwnDir))
            => (served.status = 403 /\ served.touched = {} /\ ~served.changed))

C29_DistinctDirs ==
    \A u, v \in Tenants : u # v => getUserDataDir(u) # getUserDataDir(v)

C29_TenantIsolation == C29_TouchedInside /\ C29_OutsideDenied /\ C29_DistinctDirs

---------------------------------------------------------------------------
(* One DuckDBService and the calls made on it. A call runs from one await   *)
(* to the next without interruption; between two awaits of one call any     *)
(* other call may run. Instances and connections are numbered in the order  *)
(* of their creation, 0 standing for null.                                  *)

\* The most calls made on the service.
MaxCalls == 2

Operations == <<"init", "query", "run", "loadCsv">>

\* The SQL statements a call runs once the service is initialized.
Statements(op) ==
    CASE op = "init" -> <<>>
      [] op = "query" -> <<"sql">>
      [] op = "run" -> <<"sql">>
      [] op = "loadCsv" -> <<"CREATE OR REPLACE TABLE", "SELECT COUNT(*)", "DESCRIBE">>

\* The constructor: instance = null, connection = null, initialized = false.
NewService == [instance |-> 0, connection |-> 0, initialized |-> FALSE]

NewCall(op) == [op |-> op, pc |-> "new", on |-> 0, todo |-> Statements(op)]

\* The call leaves an await with nothing more to do in init: it goes on with
\* its statements.
AtStatement(t, statement) ==
    /\ tasks' = [tasks EXCEPT ![t].pc = "sql", ![t].todo = Tail(tasks[t].todo)]
    /\ ran' = ran \cup {[call |-> t, sql |-> statement, connection |-> service.connection]}

\* if (this.initialized) return; this.instance = await DuckDBInstance.create(...)
BeginInit(t) ==
    /\ tasks' = [tasks EXCEPT ![t].pc = "create"]
    /\ UNCHANGED <<service, engine, ran>>

\* The part of a call from its entry, or from the end of a statement, to its
\* next await: if (!this.initialized) await this.init(); then the statement
\* on this.connection.
Proceed(t) ==
    IF tasks[t].todo = <<>>
    THEN /\ tasks' = [tasks EXCEPT ![t].pc = "done"]
         /\ UNCHANGED <<service, engine, ran>>
    ELSE IF ~service.initialized THEN BeginInit(t)
    ELSE IF service.connection = 0
    THEN /\ tasks' = [tasks EXCEPT ![t].pc = "failed"]
         /\ UNCHANGED <<service, engine, ran>>
    ELSE /\ AtStatement(t, Head(tasks[t].todo))
         /\ UNCHANGED <<service, engine>>

\* A call of init, query, run or loadCsv, up to its first await.
Call(t) ==
    /\ tasks[t].pc = "new"
    /\ IF tasks[t].op = "init"
       THEN IF service.initialized
            THEN /\ tasks' = [tasks EXCEPT ![t].pc = "done"]
                 /\ UNCHANGED <<service, engine, ran>>
            ELSE BeginInit(t)
       ELSE Proceed(t)
    /\ UNCHANGED <<coreVars, routeVars>>

\* DuckDBInstance.create has resolved: this.instance is set and
\* this.instance.connect() is called.
Created(t) ==
    /\ tasks[t].pc = "create"
    /\ engine' = [engine EXCEPT !.instances = engine.instances + 1]
    /\ service' = [service EXCEPT !.instance = engine.instances + 1]
    /\ tasks' = [tasks EXCEPT ![t].pc = "connect", ![t].on = engine.instances + 1]
    /\ UNCHANGED ran
    /\ UNCHANGED <<coreVars, routeVars>>

\* DuckDBInstance.create has failed on a database file that another instance
\* holds open: init throws and the call fails.
CreateFailed(t) ==
    /\ tasks[t].pc = "create"
    /\ engine.instances > 0
    /\ tasks' = [tasks EXCEPT ![t].pc = "failed"]
    /\ UNCHANGED <<service, engine, ran>>
    /\ UNCHANGED <<coreVars, routeVars>>

\* connect has resolved: this.connection is set and INSTALL httpfs is run on it.
Connected(t) ==
    /\ tasks[t].pc = "connect"
    /\ engine' = [engine EXCEPT !.connections = Append(engine.connections, tasks[t].on)]
    /\ service' = [service EXCEPT !.connection = Len(engine.connections) + 1]
    /\ tasks' = [tasks EXCEPT ![t].pc = "install"]
    /\ ran' = ran \cup {[call |-> t, sql |-> "INSTALL httpfs",
                         connection |-> Len(engine.connections) + 1]}
    /\ UNCHANGED <<coreVars, routeVars>>

\* INSTALL httpfs has ended: LOAD httpfs is run on this.connection.
Installed(t) ==
    /\ tasks[t].pc = "install"
    /\ tasks' = [tasks EXCEPT ![t].pc = "load"]
    /\ ran' = ran \cup {[call |-> t, sql |-> "LOAD httpfs", connection |-> service.connection]}
    /\ UNCHANGED <<service, engine>>
    /\ UNCHANGED <<coreVars, routeVars>>

\* this.initialized = true, and init returns to its caller.
Initialized(t) ==
    /\ service' = [service EXCEPT !.initialized = TRUE]
    /\ tasks' = [tasks EXCEPT ![t].pc = IF tasks[t].op = "init" THEN "done" ELSE "inited"]
    /\ UNCHANGED <<engine, ran>>

\* LOAD httpfs has ended.
Loaded(t) ==
    /\ tasks[t].pc = "load"
    /\ Initialized(t)
    /\ UNCHANGED <<coreVars, routeVars>>

\* INSTALL or LOAD has thrown: the extension is not available, which init
\* only warns about.
ExtensionUnavailable(t) ==
    /\ tasks[t].pc \in {"install", "load"}
    /\ Initialized(t)
    /\ UNCHANGED <<coreVars, routeVars>>

\* await this.init() has returned in query or run: the statement is run on
\* this.connection; in loadCsv: this.run(sql) is called.
Resumed(t) ==
    /\ tasks[t].pc = "inited"
    /\ IF tasks[t].op = "loadCsv" THEN Proceed(t)
       ELSE /\ AtStatement(t, Head(tasks[t].todo))
            /\ UNCHANGED <<service, engine>>
    /\ UNCHANGED <<coreVars, routeVars>>

\* A statement has ended: the call goes on to its next statement, or returns.
StatementDone(t) ==
    /\ tasks[t].pc = "sql"
    /\ Proceed(t)
    /\ UNCHANGED <<coreVars, routeVars>>

InitDuckDB ==
    /\ service = NewService
    /\ \E ops \in [1..MaxCalls -> 1..Len(Operations)] :
           \* the calls are numbered in the order of their operations
           /\ \A i, j \in 1..MaxCalls : i < j => ops[i] <= ops[j]
           /\ tasks = [t \in 1..MaxCalls |-> NewCall(Operations[ops[t]])]
    /\ engine = [instances |-> 0, connections |-> <<>>]
    /\ ran = {}
    /\ pc = "duckdb"
    /\ NoCore
    /\ files = NoResult /\ dirs = NoResult /\ served = NoResult

NextDuckDB ==
    \/ \E t \in 1..MaxCalls : Call(t)
    \/ \E t \in 1..MaxCalls : Created(t)
    \/ \E t \in 1..MaxCalls : CreateFailed(t)
    \/ \E t \in 1..MaxCalls : Connected(t)
    \/ \E t \in 1..MaxCalls : Installed(t)
    \/ \E t \in 1..MaxCalls : Loaded(t)
    \/ \E t \in 1..MaxCalls : ExtensionUnavailable(t)
    \/ \E t \in 1..MaxCalls : Resumed(t)
    \/ \E t \in 1..MaxCalls : StatementDone(t)

SpecDuckDB == InitDuckDB /\ [][NextDuckDB]_vars

---------------------------------------------------------------------------
(* C30: under any interleaving of init, query, run and loadCsv calls that   *)
(* start while the service is uninitialized, the database instance and the  *)
(* connection are created at most once, every call runs its SQL on that     *)
(* single connection, and whenever initialized is true the connection is    *)
(* not null.                                                                *)

C30_CreatedOnce ==
    /\ engine.instances <= 1
    /\ Len(engine.connections) <= 1

C30_OneConnection ==
    /\ \A r \in ran : r.connection = 1
    /\ \A t \in 1..MaxCalls :
           /\ tasks[t].pc # "failed"
           /\ tasks[t].pc = "done" =>
                  \A i \in 1..Len(Statements(tasks[t].op)) :
                      [call |-> t, sql |-> Statements(tasks[t].op)[i], connection |-> 1] \in ran

C30_ConnectedWhenInitialized ==
    service.initialized => service.connection # 0

C30_SingleConnection ==
    C30_CreatedOnce /\ C30_OneConnection /\ C30_ConnectedWhenInitialized

====
